---- MODULE Spec2Model ----
(***************************************************************************)
(* A model of the TSETMC smart-money service (src/app.py): the shared      *)
(* request cache with its lock and hit/miss counters, the per-symbol       *)
(* fetch with its two retry layers, and the fan-out of get_smart_money     *)
(* over a thread pool; and of the /smart_money endpoint of src/main.py.    *)
(*                                                                         *)
(* The specifications share the state and the operators below:             *)
(*   Spec       the cache API as a sequence of calls under a clock         *)
(*   LockSpec   request/worker threads taking cache_lock step by step      *)
(*   FetchSpec  worker threads running get_stock_data against an upstream  *)
(*   ParseSpec  get_stock_data on 200 responses of any text                *)
(*   PoolSpec   one get_smart_money call over the thread pool              *)
(*   ScanSpec   the /smart_money endpoint scanning symbols.txt             *)
(*   SweepSpec  cleanup_cache on a cache well over its size                *)
(*   ScoreSpec  parse_stock_data and analyze_smart_money_enhanced on the   *)
(*              numeric fields of a response                               *)
(*   NormSpec   the numeric normalizers on one value                       *)
(*   ConfigSpec the process start and the first request                    *)
(*   ApiSpec    one BrsApiClient._make_request call                        *)
(*   DetectSpec the scan with check_smart_money_condition on upstream data *)
(***************************************************************************)
EXTENDS Integers, Sequences, FiniteSets, TLC

\* ------------------------------------------------------------------ bounds
MaxTime == 3
MaxGets == 2
NumThreads == 2
MaxRetriesArg == 2
MaxLines == 3

\* ------------------------------------------------- configuration (Config)
\* Config reads its fields from the environment (os.getenv) with defaults;
\* the model runs the service with a small setting of each.
CACHE_DURATION == 2
MAX_CACHE_SIZE == 2
MAX_WORKERS == 2

\* retry_strategy = Retry(total=3, ..., status_forcelist=[429, 500, 502, 503, 504])
RETRY_TOTAL == 3

\* Python's None among the data values 1..2, and the unheld lock among
\* the thread ids 1..n.
None == 0
Free == 0

\* One key more than the cache may hold, so that the size eviction of
\* cleanup_cache runs; two values, so that a stale value shows.
KeySet == 1..(MAX_CACHE_SIZE + 1)
DataSet == 1..2
ThreadSet == 1..NumThreads

VARIABLES
    now,            \* time.time(), in seconds
    REQUEST_CACHE,  \* dict key -> (data, timestamp), in insertion order
    CACHE_HITS,
    CACHE_MISSES,
    cache_lock,     \* Free or the thread holding threading.Lock()
    thr,            \* per-thread position and locals
    obs,            \* what callers observed (history)
    sm              \* the running get_smart_money call

vars == <<now, REQUEST_CACHE, CACHE_HITS, CACHE_MISSES, cache_lock, thr, obs, sm>>

\* ------------------------------------------------------- dict operations
\* A Python dict keeps insertion order: REQUEST_CACHE is a sequence of
\* [key, data, timestamp] with pairwise distinct keys.
DictKeys(c) == {c[i].key : i \in DOMAIN c}

DictIndex(c, k) == CHOOSE i \in DOMAIN c : c[i].key = k

DictGet(c, k) == c[DictIndex(c, k)]

\* d[k] = v: an existing key keeps its position, a new key goes last.
DictSet(c, k, d, t) ==
    LET e == [key |-> k, data |-> d, timestamp |-> t]
    IN  IF k \in DictKeys(c)
        THEN [c EXCEPT ![DictIndex(c, k)] = e]
        ELSE Append(c, e)

DictDel(c, k) == SelectSeq(c, LAMBDA e : e.key # k)

DictDelAll(c, ks) == SelectSeq(c, LAMBDA e : e.key \notin ks)

\* ------------------------------------------------------------ the cache
\* cleanup_cache: current_time - timestamp > config.CACHE_DURATION
IsExpiredMutInverted(timestamp, current_time) ==
    current_time - timestamp < CACHE_DURATION

IsExpired(timestamp, current_time) ==
    current_time - timestamp > CACHE_DURATION

\* get_cached_data: time.time() - timestamp < config.CACHE_DURATION
IsFreshMutInclusive(timestamp, current_time) ==
    current_time - timestamp <= CACHE_DURATION

IsFreshMutShort(timestamp, current_time) ==
    current_time - timestamp < CACHE_DURATION - 1

IsFresh(timestamp, current_time) ==
    current_time - timestamp < CACHE_DURATION

expired_keys(c, current_time) ==
    {c[i].key : i \in {j \in DOMAIN c : IsExpired(c[j].timestamp, current_time)}}

\* sorted(REQUEST_CACHE.items(), key=lambda x: x[1][1]): a stable sort by
\* timestamp, so equal timestamps stay in insertion order.
RECURSIVE InsertByTimestamp(_, _)
InsertByTimestamp(s, e) ==
    IF s = <<>> THEN <<e>>
    ELSE IF Head(s).timestamp <= e.timestamp
         THEN <<Head(s)>> \o InsertByTimestamp(Tail(s), e)
         ELSE <<e>> \o s

RECURSIVE sorted_items(_)
sorted_items(c) ==
    IF c = <<>> THEN <<>>
    ELSE InsertByTimestamp(sorted_items(SubSeq(c, 1, Len(c) - 1)), c[Len(c)])

\* [item[0] for item in sorted_items[:config.MAX_CACHE_SIZE//2]]
keys_to_remove(c) ==
    LET s == sorted_items(c)
        n == IF MAX_CACHE_SIZE \div 2 < Len(s) THEN MAX_CACHE_SIZE \div 2 ELSE Len(s)
    IN  {s[i].key : i \in 1..n}

\* The body of cleanup_cache under the lock: the expiry pass, then the
\* size eviction.
AfterExpiry(c, current_time) == DictDelAll(c, expired_keys(c, current_time))

CleanupBody(c, current_time) ==
    LET c1 == AfterExpiry(c, current_time)
    IN  IF Len(c1) > MAX_CACHE_SIZE THEN DictDelAll(c1, keys_to_remove(c1)) ELSE c1

\* The body of get_cached_data under the lock: [cache, ret, hit].
GetCachedBodyMutNoDelete(c, key, current_time) ==
    IF key \in DictKeys(c)
    THEN LET e == DictGet(c, key)
         IN  IF IsFresh(e.timestamp, current_time)
             THEN [cache |-> c, ret |-> e.data, hit |-> TRUE]
             ELSE [cache |-> c, ret |-> None, hit |-> FALSE]
    ELSE [cache |-> c, ret |-> None, hit |-> FALSE]

GetCachedBody(c, key, current_time) ==
    IF key \in DictKeys(c)
    THEN LET e == DictGet(c, key)
         IN  IF IsFresh(e.timestamp, current_time)
             THEN [cache |-> c, ret |-> e.data, hit |-> TRUE]
             ELSE [cache |-> DictDel(c, key), ret |-> None, hit |-> FALSE]
    ELSE [cache |-> c, ret |-> None, hit |-> FALSE]

\* The body of set_cached_data under the lock.
SetCachedBodyMutTouchAll(c, key, data, current_time) ==
    LET c1 == DictSet(c, key, data, current_time)
    IN  [i \in DOMAIN c1 |-> [c1[i] EXCEPT !.timestamp = current_time]]

SetCachedBody(c, key, data, current_time) == DictSet(c, key, data, current_time)

\* ------------------------------------------------------------- the clock
Tick ==
    /\ now < MaxTime
    /\ now' = now + 1
    /\ UNCHANGED <<REQUEST_CACHE, CACHE_HITS, CACHE_MISSES, cache_lock, thr, obs, sm>>

\* =========================================================================
\* Spec: the cache API called in sequence (each call takes cache_lock, runs
\* its body and releases it before the next call starts).
\* =========================================================================
NoThreads == <<>>
NoCall == [status |-> "idle"]

\* obs.ret is what the last get_cached_data returned. obs.tracked follows the
\* latest set_cached_data of one key, TrackedKey: its value and time, and
\* whether a sweep has removed the key since (<<>>: the key was never set).
\* The code only compares keys for equality, so any key stands for the others.
TrackedKey == 1

CacheObs0 == [ret |-> None, tracked |-> <<>>]

CacheInit ==
    /\ now = 0
    /\ REQUEST_CACHE = <<>>
    /\ CACHE_HITS = 0
    /\ CACHE_MISSES = 0
    /\ cache_lock = Free
    /\ thr = NoThreads
    /\ obs = CacheObs0
    /\ sm = NoCall

get_cached_data(key) ==
    /\ cache_lock = Free
    /\ CACHE_HITS + CACHE_MISSES < MaxGets
    /\ LET r == GetCachedBody(REQUEST_CACHE, key, now)
       IN  /\ REQUEST_CACHE' = r.cache
           /\ CACHE_HITS' = IF r.hit THEN CACHE_HITS + 1 ELSE CACHE_HITS
           /\ CACHE_MISSES' = IF r.hit THEN CACHE_MISSES ELSE CACHE_MISSES + 1
           /\ obs' = [obs EXCEPT !.ret = r.ret]
    /\ UNCHANGED <<now, cache_lock, thr, sm>>

set_cached_data(key, data) ==
    /\ cache_lock = Free
    /\ REQUEST_CACHE' = SetCachedBody(REQUEST_CACHE, key, data, now)
    /\ obs' = [obs EXCEPT !.tracked =
                    IF key = TrackedKey
                    THEN <<[key |-> key, data |-> data, at |-> now, swept |-> FALSE]>>
                    ELSE obs.tracked]
    /\ UNCHANGED <<now, CACHE_HITS, CACHE_MISSES, cache_lock, thr, sm>>

cleanup_cache ==
    /\ cache_lock = Free
    /\ REQUEST_CACHE' = CleanupBody(REQUEST_CACHE, now)
    /\ obs' = IF obs.tracked # <<>>
                 /\ obs.tracked[1].key \in DictKeys(REQUEST_CACHE)
                 /\ obs.tracked[1].key \notin DictKeys(CleanupBody(REQUEST_CACHE, now))
              THEN [obs EXCEPT !.tracked[1].swept = TRUE]
              ELSE obs
    /\ UNCHANGED <<now, CACHE_HITS, CACHE_MISSES, cache_lock, thr, sm>>

CacheNext ==
    \/ Tick
    \/ \E k \in KeySet : get_cached_data(k)
    \/ \E k \in KeySet, d \in DataSet : set_cached_data(k, d)
    \/ cleanup_cache

Spec == CacheInit /\ [][CacheNext]_vars

Age(e) == now - e.timestamp

\* C1: a get_cached_data(key) never returns a value whose entry is
\* CACHE_DURATION or more seconds old; and for a set_cached_data(key, v) that
\* no later put of that key followed, a get made while its age is below CACHE_DURATION
\* returns v unless a sweep removed the key, and a get made once
\* CACHE_DURATION seconds have passed returns None.
C1_GetReturnsOnlyFresh ==
    [][\A k \in KeySet : get_cached_data(k) =>
         /\ obs'.ret # None =>
               /\ k \in DictKeys(REQUEST_CACHE)
               /\ Age(DictGet(REQUEST_CACHE, k)) < CACHE_DURATION
               /\ obs'.ret = DictGet(REQUEST_CACHE, k).data
         /\ (obs.tracked # <<>> /\ obs.tracked[1].key = k) =>
               /\ (now - obs.tracked[1].at < CACHE_DURATION /\ ~obs.tracked[1].swept)
                     => obs'.ret = obs.tracked[1].data
               /\ now - obs.tracked[1].at >= CACHE_DURATION
                     => obs'.ret = None]_vars

\* One hit and then a miss on the tracked key, CACHE_DURATION after its put:
\* no sweep removed it, so the miss is the lookup that found it expired.
C1_Witness ==
    /\ obs.tracked # <<>>
    /\ ~obs.tracked[1].swept
    /\ now - obs.tracked[1].at >= CACHE_DURATION
    /\ CACHE_HITS = 1
    /\ CACHE_MISSES = 1
    /\ obs.ret = None
    /\ REQUEST_CACHE = <<>>

\* C4 as claimed: cleanup_cache never deletes an entry whose age is below
\* CACHE_DURATION.
C4_SweepNeverDeletesFresh ==
    [][cleanup_cache =>
         \A i \in DOMAIN REQUEST_CACHE :
            Age(REQUEST_CACHE[i]) < CACHE_DURATION
               => REQUEST_CACHE[i].key \in DictKeys(REQUEST_CACHE')]_vars

\* C4 amended: cleanup_cache deletes an entry whose age is below
\* CACHE_DURATION only when more than MAX_CACHE_SIZE entries are left after
\* the expiry pass (entries of age <= CACHE_DURATION), and then only an entry
\* that is no newer than any entry it keeps.
C4_SweepDeletesFreshOnlyBySize ==
    [][cleanup_cache =>
         \A i \in DOMAIN REQUEST_CACHE :
            (/\ Age(REQUEST_CACHE[i]) < CACHE_DURATION
             /\ REQUEST_CACHE[i].key \notin DictKeys(REQUEST_CACHE'))
               => /\ Cardinality({j \in DOMAIN REQUEST_CACHE :
                                    Age(REQUEST_CACHE[j]) <= CACHE_DURATION})
                        > MAX_CACHE_SIZE
                  /\ \A j \in DOMAIN REQUEST_CACHE' :
                        REQUEST_CACHE[i].timestamp <= REQUEST_CACHE'[j].timestamp]_vars

\* A sweep removed the tracked key while its entry was still fresh.
C4_Witness ==
    /\ obs.tracked # <<>>
    /\ obs.tracked[1].swept
    /\ now - obs.tracked[1].at < CACHE_DURATION

\* C21: a get_cached_data(key) that finds an entry of age CACHE_DURATION or
\* more removes that entry and reports a miss (None, one more miss, no more
\* hits), and leaves every other entry as it was, in the same order.
C21_ExpiredGetDeletesLazily ==
    [][\A k \in KeySet :
         (/\ get_cached_data(k)
          /\ k \in DictKeys(REQUEST_CACHE)
          /\ Age(DictGet(REQUEST_CACHE, k)) >= CACHE_DURATION)
            => /\ DictKeys(REQUEST_CACHE') = DictKeys(REQUEST_CACHE) \ {k}
               /\ Len(REQUEST_CACHE') = Len(REQUEST_CACHE) - 1
               /\ \A i \in DOMAIN REQUEST_CACHE' :
                     REQUEST_CACHE'[i] =
                        REQUEST_CACHE[IF i < DictIndex(REQUEST_CACHE, k) THEN i ELSE i + 1]
               /\ obs'.ret = None
               /\ CACHE_MISSES' = CACHE_MISSES + 1
               /\ CACHE_HITS' = CACHE_HITS]_vars

\* The tracked key was put, no sweep removed it, and it is gone after one
\* miss CACHE_DURATION or more after its put, while another entry is still
\* in the cache: the miss was the lookup that deleted it.
C21_Witness ==
    /\ obs.tracked # <<>>
    /\ ~obs.tracked[1].swept
    /\ now - obs.tracked[1].at >= CACHE_DURATION
    /\ obs.tracked[1].key \notin DictKeys(REQUEST_CACHE)
    /\ CACHE_HITS = 0
    /\ CACHE_MISSES = 1
    /\ obs.ret = None
    /\ Len(REQUEST_CACHE) >= 1

\* C22: set_cached_data(key, v) leaves exactly one entry for key, (v, now),
\* and changes nothing else: every other key keeps its value and timestamp,
\* no key is added or lost, both counters are unchanged, and the record a
\* caller got from an earlier get_cached_data is as it was.
C22_SetReplacesOnlyItsKey ==
    [][\A k \in KeySet, d \in DataSet : set_cached_data(k, d) =>
         /\ DictKeys(REQUEST_CACHE') = DictKeys(REQUEST_CACHE) \cup {k}
         /\ Len(REQUEST_CACHE') = Cardinality(DictKeys(REQUEST_CACHE'))
         /\ DictGet(REQUEST_CACHE', k) = [key |-> k, data |-> d, timestamp |-> now]
         /\ \A j \in DictKeys(REQUEST_CACHE) \ {k} :
               DictGet(REQUEST_CACHE', j) = DictGet(REQUEST_CACHE, j)
         /\ CACHE_HITS' = CACHE_HITS
         /\ CACHE_MISSES' = CACHE_MISSES
         /\ obs'.ret = obs.ret]_vars

\* The tracked key is first in insertion order yet newer than the entry put
\* after it: a later set_cached_data replaced its entry in place; and a
\* get_cached_data before that returned a record with another value.
C22_Witness ==
    /\ Len(REQUEST_CACHE) = 2
    /\ REQUEST_CACHE[1].key = TrackedKey
    /\ obs.tracked # <<>>
    /\ REQUEST_CACHE[1].timestamp = obs.tracked[1].at
    /\ REQUEST_CACHE[1].timestamp > REQUEST_CACHE[2].timestamp
    /\ CACHE_HITS = 1
    /\ obs.ret # None
    /\ obs.ret # REQUEST_CACHE[1].data

\* C33: after a cleanup_cache that evicted nothing for size, every entry
\* left is one get_cached_data would return at that instant: its age is
\* below CACHE_DURATION, not equal to it.
C33_SweepAndLookupAgree ==
    [][(/\ cleanup_cache
        /\ Cardinality({j \in DOMAIN REQUEST_CACHE :
                          Age(REQUEST_CACHE[j]) <= CACHE_DURATION}) <= MAX_CACHE_SIZE)
          => \A i \in DOMAIN REQUEST_CACHE' :
                now - REQUEST_CACHE'[i].timestamp < CACHE_DURATION]_vars

\* =========================================================================
\* LockSpec: threads (Flask runs app.run(threaded=True), and the pool of
\* get_smart_money runs workers) calling the cache functions, one step per
\* lock operation and per unlocked access to the shared state.
\*   "with cache_lock:" is an acquire step and a step that runs the body and
\*   releases; "CACHE_MISSES += 1", after the with block, is a load and a
\*   store of the global, and another thread may run between the two.
\* =========================================================================
Idle == [pc |-> "idle", key |-> 0, data |-> 0, tmp |-> 0]

\* obs.gets counts the get_cached_data calls that have returned; obs.access
\* is the last access to REQUEST_CACHE: the thread and the holder of
\* cache_lock at that moment.
LockObs0 == [gets |-> 0, access |-> [by |-> 0, holder |-> 0]]

LockKeys == {1, 2}

InGet(t) == thr[t].pc \in {"get_locked", "miss_load", "miss_store"}

LockInit ==
    /\ now = 0
    /\ REQUEST_CACHE = <<>>
    /\ CACHE_HITS = 0
    /\ CACHE_MISSES = 0
    /\ cache_lock = Free
    /\ thr = [t \in ThreadSet |-> Idle]
    /\ obs = LockObs0
    /\ sm = NoCall

Access(t) == [by |-> t, holder |-> cache_lock]

get_cached_data_acquire(t, key) ==
    /\ thr[t].pc = "idle"
    /\ obs.gets + Cardinality({u \in ThreadSet : InGet(u)}) < MaxGets
    /\ cache_lock = Free
    /\ cache_lock' = t
    /\ thr' = [thr EXCEPT ![t] = [Idle EXCEPT !.pc = "get_locked", !.key = key]]
    /\ UNCHANGED <<now, REQUEST_CACHE, CACHE_HITS, CACHE_MISSES, obs, sm>>

get_cached_data_locked(t) ==
    /\ thr[t].pc = "get_locked"
    /\ cache_lock = t
    /\ LET r == GetCachedBody(REQUEST_CACHE, thr[t].key, now)
       IN  /\ REQUEST_CACHE' = r.cache
           /\ CACHE_HITS' = IF r.hit THEN CACHE_HITS + 1 ELSE CACHE_HITS
           /\ thr' = [thr EXCEPT ![t] = IF r.hit THEN Idle
                                        ELSE [@ EXCEPT !.pc = "miss_load"]]
           /\ obs' = [obs EXCEPT !.access = Access(t),
                                 !.gets = IF r.hit THEN @ + 1 ELSE @]
    /\ cache_lock' = Free
    /\ UNCHANGED <<now, CACHE_MISSES, sm>>

get_cached_data_miss_load(t) ==
    /\ thr[t].pc = "miss_load"
    /\ thr' = [thr EXCEPT ![t] = [@ EXCEPT !.pc = "miss_store", !.tmp = CACHE_MISSES]]
    /\ UNCHANGED <<now, REQUEST_CACHE, CACHE_HITS, CACHE_MISSES, cache_lock, obs, sm>>

get_cached_data_miss_store(t) ==
    /\ thr[t].pc = "miss_store"
    /\ CACHE_MISSES' = thr[t].tmp + 1
    /\ thr' = [thr EXCEPT ![t] = Idle]
    /\ obs' = [obs EXCEPT !.gets = @ + 1]
    /\ UNCHANGED <<now, REQUEST_CACHE, CACHE_HITS, cache_lock, sm>>

set_cached_data_acquire(t, key, data) ==
    /\ thr[t].pc = "idle"
    /\ cache_lock = Free
    /\ cache_lock' = t
    /\ thr' = [thr EXCEPT ![t] = [Idle EXCEPT !.pc = "set_locked", !.key = key,
                                               !.data = data]]
    /\ UNCHANGED <<now, REQUEST_CACHE, CACHE_HITS, CACHE_MISSES, obs, sm>>

set_cached_data_locked(t) ==
    /\ thr[t].pc = "set_locked"
    /\ cache_lock = t
    /\ REQUEST_CACHE' = SetCachedBody(REQUEST_CACHE, thr[t].key, thr[t].data, now)
    /\ cache_lock' = Free
    /\ thr' = [thr EXCEPT ![t] = Idle]
    /\ obs' = [obs EXCEPT !.access = Access(t)]
    /\ UNCHANGED <<now, CACHE_HITS, CACHE_MISSES, sm>>

cleanup_cache_acquire(t) ==
    /\ thr[t].pc = "idle"
    /\ cache_lock = Free
    /\ cache_lock' = t
    /\ thr' = [thr EXCEPT ![t] = [Idle EXCEPT !.pc = "cleanup_locked"]]
    /\ UNCHANGED <<now, REQUEST_CACHE, CACHE_HITS, CACHE_MISSES, obs, sm>>

cleanup_cache_locked(t) ==
    /\ thr[t].pc = "cleanup_locked"
    /\ cache_lock = t
    /\ REQUEST_CACHE' = CleanupBody(REQUEST_CACHE, now)
    /\ cache_lock' = Free
    /\ thr' = [thr EXCEPT ![t] = Idle]
    /\ obs' = [obs EXCEPT !.access = Access(t)]
    /\ UNCHANGED <<now, CACHE_HITS, CACHE_MISSES, sm>>

\* len(REQUEST_CACHE) in get_smart_money's report, health_check, get_metrics
\* and cleanup_memory: read with no "with cache_lock:" around it.
read_cache_size(t) ==
    /\ thr[t].pc = "idle"
    /\ obs' = [obs EXCEPT !.access = Access(t)]
    /\ UNCHANGED <<now, REQUEST_CACHE, CACHE_HITS, CACHE_MISSES, cache_lock, thr, sm>>

LockNext ==
    \/ Tick
    \/ \E t \in ThreadSet, k \in LockKeys : get_cached_data_acquire(t, k)
    \/ \E t \in ThreadSet : get_cached_data_locked(t)
    \/ \E t \in ThreadSet : get_cached_data_miss_load(t)
    \/ \E t \in ThreadSet : get_cached_data_miss_store(t)
    \/ \E t \in ThreadSet, k \in LockKeys, d \in DataSet : set_cached_data_acquire(t, k, d)
    \/ \E t \in ThreadSet : set_cached_data_locked(t)
    \/ \E t \in ThreadSet : cleanup_cache_acquire(t)
    \/ \E t \in ThreadSet : cleanup_cache_locked(t)
    \/ \E t \in ThreadSet : read_cache_size(t)

LockSpec == LockInit /\ [][LockNext]_vars

\* C5 as claimed: once the get_cached_data calls made so far have all
\* returned, CACHE_HITS + CACHE_MISSES is their number.
C5_CountersCountEveryGet ==
    (\A t \in ThreadSet : ~InGet(t)) => CACHE_HITS + CACHE_MISSES = obs.gets

\* C6 as claimed: whoever reads or writes REQUEST_CACHE holds cache_lock.
C6_EveryAccessHoldsLock == obs.access.holder = obs.access.by

\* =========================================================================
\* FetchSpec: the pool's worker threads running get_stock_data(symbol,
\* max_retries) against an upstream that answers each HTTP request as it
\* likes, while requests sweep the cache and the clock advances.
\*
\* session.get goes through the adapter mounted with retry_strategy: urllib3
\* re-sends a request that ended in a connection error, a timeout or a status
\* of status_forcelist, until Retry.total is used up, and only then raises;
\* any other response is returned to get_stock_data.
\* =========================================================================
WorkerSet == 1..MAX_WORKERS
SymbolSet == {1, 2}

\* What one HTTP request can come back with:
\*   "error"  connection error or timeout
\*   "s503"   a status of status_forcelist
\*   "s404"   another status raise_for_status() raises for
\*   a body   200 with that body, see ResponseParts
StatusOutcomes == {"error", "s503", "s404"}
BodyOutcomes == {"few", "zero", "neg", "ok"}
Outcomes == StatusOutcomes \cup BodyOutcomes

\* parse_stock_data(response.text, symbol): the record carries its symbol
\* ('symbol': symbol); the other fields are left out here.
ParsedRecord(symbol) == symbol

Min(a, b) == IF a < b THEN a ELSE b

\* ---------------------------------------------------------- response text
\* A response text is the sequence of its comma-separated parts, each part
\* one of a few texts.  "".split(',') is [''], so a text has one part at
\* least.
Tokens == {"", "abc", "-5", "0", "7", "nan", "inf"}

\* len() of a part, and of the parts joined by commas
TokenLen(part) ==
    CASE part = "" -> 0
      [] part \in {"0", "7"} -> 1
      [] part = "-5" -> 2
      [] OTHER -> 3

RECURSIVE JoinedLen(_, _)
JoinedLen(parts, n) ==
    IF n = 1 THEN TokenLen(parts[1])
    ELSE JoinedLen(parts, n - 1) + 1 + TokenLen(parts[n])

TextLen(parts) == JoinedLen(parts, Len(parts))

\* Python floats: a number, nan or inf
Num(v) == [kind |-> "num", v |-> v]
NaN == [kind |-> "nan", v |-> 0]
Inf == [kind |-> "inf", v |-> 0]

\* What the normalizers may be given besides a part of a response: None
\* (written "<None>"), a number with a thousands separator, one with blanks
\* around it, and one too large for a float.
NormalizerInputs == Tokens \cup {"<None>", "1,234", " 7 ", "1e400"}

\* safe_float(value, default=0.0): '' and None give the default, float(value)
\* raising ValueError gives the default; float(' 7 ') is 7.0, float('nan')
\* and float('inf') are floats and float('1e400') is inf.
safe_float(value, default) ==
    CASE value \in {"", "<None>", "abc", "1,234"} -> Num(default)
      [] value = "-5" -> Num(0 - 5)
      [] value = "0" -> Num(0)
      [] value \in {"7", " 7 "} -> Num(7)
      [] value = "nan" -> NaN
      [] value \in {"inf", "1e400"} -> Inf

\* safe_int(value, default=0): int(float(value)); the ValueError of 'abc' and
\* of int(nan) is caught, the OverflowError of int(inf) is not.
safe_int(value, default) ==
    CASE value \in {"", "<None>", "abc", "1,234", "nan"} ->
            [raised |-> FALSE, v |-> default]
      [] value = "-5" -> [raised |-> FALSE, v |-> 0 - 5]
      [] value = "0" -> [raised |-> FALSE, v |-> 0]
      [] value \in {"7", " 7 "} -> [raised |-> FALSE, v |-> 7]
      [] value \in {"inf", "1e400"} -> [raised |-> TRUE, v |-> 0]

\* safe_convert_to_number(value, default=0.0): None gives the default; of a
\* string only the digits, '.' and '-' are kept (cleaned), and float(cleaned)
\* is returned, or the default for an empty cleaned or a ValueError.
safe_convert_to_number(value, default) ==
    CASE value \in {"", "<None>", "abc", "nan", "inf"} -> Num(default)
      [] value = "-5" -> Num(0 - 5)
      [] value = "0" -> Num(0)
      [] value \in {"7", " 7 "} -> Num(7)
      [] value = "1,234" -> Num(1234)
      [] value = "1e400" -> Num(1400)

\* x <= 0 with the price check loosened to x < 0
NotPositiveMutStrict(x) == x.kind = "num" /\ x.v < 0

\* x <= 0 on floats: false for nan and for inf
NotPositive(x) == x.kind = "num" /\ x.v <= 0

\* parse_stock_data(data, symbol): None for a text under 10 characters, for
\* fewer than 11 parts, for an exception (caught by its own except) and for
\* last_price <= 0; parts[2] is last_price, parts[6] volume, parts[10] count.
parse_stock_data(parts, symbol) ==
    IF TextLen(parts) < 10 THEN None
    ELSE IF Len(parts) < 11 THEN None
    ELSE IF safe_int(parts[7], 0).raised \/ safe_int(parts[11], 0).raised THEN None
    ELSE IF NotPositive(safe_float(parts[3], 0)) THEN None
    ELSE ParsedRecord(symbol)

\* A text of n parts with the given last_price, all other parts "7".
PartsWith(n, last_price) ==
    [i \in 1..n |-> IF i = 3 THEN last_price ELSE "7"]

\* The text of a 200 response:
\*   "few"   10 parts
\*   "zero"  11 parts, last_price 0
\*   "neg"   11 parts, last_price -5
\*   "ok"    11 parts, last_price 7
ResponseParts(outcome) ==
    CASE outcome = "few" -> PartsWith(10, "7")
      [] outcome = "zero" -> PartsWith(11, "0")
      [] outcome = "neg" -> PartsWith(11, "-5")
      [] outcome = "ok" -> PartsWith(11, "7")

\* if response.text and len(response.text) > 10:
\*     stock_data = parse_stock_data(response.text, symbol)
ParsedText(text, symbol) ==
    IF TextLen(text) > 10 THEN parse_stock_data(text, symbol) ELSE None

\* ParsedText of every response body for every symbol, as a table.
ParsedBodies ==
    [outcome \in BodyOutcomes |->
        [symbol \in SymbolSet |-> ParsedText(ResponseParts(outcome), symbol)]]

ParsedBody(outcome, symbol) == ParsedBodies[outcome][symbol]

\* slept is the time.sleep made before the current attempt, in tenths of a
\* second.
WorkerIdle ==
    [pc |-> "idle", symbol |-> 0, max_retries |-> 0, attempt |-> 0,
     slept |-> 0, stock_data |-> None, ret |-> None]

\* obs.wire[t] counts the HTTP requests the current call of worker t has sent
\* upstream, up to max_retries + 1 (one more than the call is said to send).
FetchObs0 ==
    [ret |-> None, tracked |-> <<>>, wire |-> [t \in WorkerSet |-> 0]]

FetchInit ==
    /\ now = 0
    /\ REQUEST_CACHE = <<>>
    /\ CACHE_HITS = 0
    /\ CACHE_MISSES = 0
    /\ cache_lock = Free
    /\ thr = [t \in WorkerSet |-> WorkerIdle]
    /\ obs = FetchObs0
    /\ sm = NoCall

\* executor.submit(get_stock_data, symbol) reaches a worker.
get_stock_data_call(t, symbol, max_retries) ==
    /\ thr[t].pc \in {"idle", "done"}
    /\ CACHE_HITS + CACHE_MISSES
          + Cardinality({u \in WorkerSet : thr[u].pc = "lookup"}) < MaxGets
    /\ thr' = [thr EXCEPT ![t] = [WorkerIdle EXCEPT !.pc = "lookup",
                                     !.symbol = symbol, !.max_retries = max_retries]]
    /\ obs' = [obs EXCEPT !.wire[t] = 0]
    /\ UNCHANGED <<now, REQUEST_CACHE, CACHE_HITS, CACHE_MISSES, cache_lock, sm>>

\* for attempt in range(max_retries): the loop goes on to `attempt`, or is
\* left for the final "return None".
LoopAtMutNoLimit(w, attempt, slept) ==
    [w EXCEPT !.pc = "request", !.attempt = 0, !.slept = slept]

LoopAt(w, attempt, slept) ==
    IF attempt < w.max_retries
    THEN [w EXCEPT !.pc = "request", !.attempt = attempt, !.slept = slept]
    ELSE [w EXCEPT !.pc = "done", !.attempt = 0, !.slept = 0, !.ret = None]

\* except Exception as e: if attempt < max_retries - 1:
\*     time.sleep(0.5 * (attempt + 1))
BackoffMutAlways(w) == 5 * (w.attempt + 1)

Backoff(w) == IF w.attempt < w.max_retries - 1 THEN 5 * (w.attempt + 1) ELSE 0

\* cached_data = get_cached_data(symbol); if cached_data: return cached_data
get_stock_data_lookup(t) ==
    /\ thr[t].pc = "lookup"
    /\ cache_lock = Free
    /\ LET r == GetCachedBody(REQUEST_CACHE, thr[t].symbol, now)
       IN  /\ REQUEST_CACHE' = r.cache
           /\ CACHE_HITS' = IF r.hit THEN CACHE_HITS + 1 ELSE CACHE_HITS
           /\ CACHE_MISSES' = IF r.hit THEN CACHE_MISSES ELSE CACHE_MISSES + 1
           /\ thr' = [thr EXCEPT ![t] =
                        IF r.ret # None
                        THEN [@ EXCEPT !.pc = "done", !.ret = r.ret]
                        ELSE LoopAt(@, 0, 0)]
    /\ UNCHANGED <<now, cache_lock, obs, sm>>

\* The HTTP requests one session.get sends: urllib3 re-sends after an "error"
\* or "s503" while Retry.total, decremented each time, is not below 0, so a
\* session.get that ends in one of the two has sent RETRY_TOTAL + 1 requests,
\* and one that ends otherwise has sent 1 to RETRY_TOTAL + 1.
Sends(outcome) ==
    IF outcome \in {"error", "s503"} THEN {RETRY_TOTAL + 1} ELSE 1..(RETRY_TOTAL + 1)

\* if stock_data: set_cached_data(...); return stock_data -- with a record,
\* on to set_cached_data (attempt is not read again on this path); with
\* none, no branch is taken and no exception raised: the next iteration.
Received(w, stock_data) ==
    IF stock_data # None
    THEN [w EXCEPT !.pc = "store", !.attempt = 0, !.slept = 0,
                   !.stock_data = stock_data]
    ELSE LoopAt(w, w.attempt + 1, 0)

\* session_get with an except clause that does not catch the HTTPError of
\* raise_for_status(): the exception leaves get_stock_data.
session_getMutUncaught(t, outcome, sent) ==
    /\ thr[t].pc = "request"
    /\ sent \in Sends(outcome)
    /\ obs' = IF "wire" \in DOMAIN obs
              THEN [obs EXCEPT !.wire[t] = Min(@ + sent, thr[t].max_retries + 1)]
              ELSE obs
    /\ thr' = [thr EXCEPT ![t] =
         LET w == @
         IN  CASE outcome \in {"error", "s503"} ->
                    LoopAt(w, w.attempt + 1, Backoff(w))
               [] outcome = "s404" ->
                    [w EXCEPT !.pc = "raised"]
               [] OTHER ->
                    Received(w, ParsedBody(outcome, w.symbol))]
    /\ UNCHANGED <<now, REQUEST_CACHE, CACHE_HITS, CACHE_MISSES, cache_lock, sm>>

\* response = session.get(url, timeout=...) and the rest of the try block:
\* `sent` requests go upstream, the last one ends in `outcome`.  The requests
\* are counted where obs carries the count.
session_get(t, outcome, sent) ==
    /\ thr[t].pc = "request"
    /\ sent \in Sends(outcome)
    /\ obs' = IF "wire" \in DOMAIN obs
              THEN [obs EXCEPT !.wire[t] = Min(@ + sent, thr[t].max_retries + 1)]
              ELSE obs
    /\ thr' = [thr EXCEPT ![t] =
         LET w == @
         IN  CASE outcome \in {"error", "s503", "s404"} ->
                    \* RetryError / ConnectionError from the adapter, or the
                    \* HTTPError of response.raise_for_status(): the except
                    \* branch, then the next iteration
                    LoopAt(w, w.attempt + 1, Backoff(w))
               [] OTHER ->
                    \* a 200 with a body
                    Received(w, ParsedBody(outcome, w.symbol))]
    /\ UNCHANGED <<now, REQUEST_CACHE, CACHE_HITS, CACHE_MISSES, cache_lock, sm>>

\* return stock_data without set_cached_data before it
get_stock_data_storeMutNoWrite(t) ==
    /\ thr[t].pc = "store"
    /\ cache_lock = Free
    /\ thr' = [thr EXCEPT ![t] = [@ EXCEPT !.pc = "done", !.stock_data = None,
                                           !.ret = thr[t].stock_data]]
    /\ UNCHANGED <<now, REQUEST_CACHE, CACHE_HITS, CACHE_MISSES, cache_lock, obs, sm>>

\* set_cached_data(symbol, stock_data); return stock_data
get_stock_data_store(t) ==
    /\ thr[t].pc = "store"
    /\ cache_lock = Free
    /\ REQUEST_CACHE' = SetCachedBody(REQUEST_CACHE, thr[t].symbol, thr[t].stock_data, now)
    /\ thr' = [thr EXCEPT ![t] = [@ EXCEPT !.pc = "done", !.stock_data = None,
                                           !.ret = thr[t].stock_data]]
    /\ UNCHANGED <<now, CACHE_HITS, CACHE_MISSES, cache_lock, obs, sm>>

FetchNext ==
    \/ Tick
    \/ cleanup_cache
    \/ \E t \in WorkerSet, s \in SymbolSet, m \in 0..MaxRetriesArg :
          get_stock_data_call(t, s, m)
    \/ \E t \in WorkerSet : get_stock_data_lookup(t)
    \/ \E t \in WorkerSet, o \in Outcomes, n \in 1..(RETRY_TOTAL + 1) :
          session_get(t, o, n)
    \/ \E t \in WorkerSet : get_stock_data_store(t)

FetchSpec == FetchInit /\ [][FetchNext]_vars

\* C7 as claimed: a get_stock_data(symbol, max_retries) call sends at most
\* max_retries requests to the upstream.
C7_AtMostMaxRetriesRequests ==
    \A t \in WorkerSet : obs.wire[t] <= thr[t].max_retries

\* C8 as claimed: a response with a non-200 status outside status_forcelist
\* (404) ends the fetch at once, with no further attempt.
C8_OtherStatusFailsImmediately ==
    [][\A t \in WorkerSet, n \in 1..(RETRY_TOTAL + 1) :
         session_get(t, "s404", n) => thr'[t].pc = "done"]_vars

\* C9: a get_stock_data(symbol) that finds a valid (unexpired) entry for the
\* symbol returns the cached record and has sent no request upstream.
C9_ValidEntryShortCircuits ==
    [][\A t \in WorkerSet :
         (/\ get_stock_data_lookup(t)
          /\ thr[t].symbol \in DictKeys(REQUEST_CACHE)
          /\ Age(DictGet(REQUEST_CACHE, thr[t].symbol)) < CACHE_DURATION)
            => /\ thr'[t].pc = "done"
               /\ thr'[t].ret = DictGet(REQUEST_CACHE, thr[t].symbol).data
               /\ obs'.wire[t] = 0]_vars

\* A call has returned a record without sending a request, from an entry that
\* is no longer new.
C9_Witness ==
    \E t \in WorkerSet :
        /\ thr[t].pc = "done"
        /\ thr[t].ret # None
        /\ obs.wire[t] = 0
        /\ thr[t].symbol \in DictKeys(REQUEST_CACHE)
        /\ DictGet(REQUEST_CACHE, thr[t].symbol).timestamp < now
        /\ CACHE_HITS = 1

\* C10 as claimed: while the cache holds the record of a successful fetch of
\* a symbol (the window of that fetch is open), no get_stock_data call sends
\* another request for the symbol.
C10_OneFetchPerWindow ==
    [][\A t \in WorkerSet, o \in Outcomes, n \in 1..(RETRY_TOTAL + 1) :
         session_get(t, o, n)
            => ~(/\ thr[t].symbol \in DictKeys(REQUEST_CACHE)
                 /\ Age(DictGet(REQUEST_CACHE, thr[t].symbol)) < CACHE_DURATION)]_vars

\* C16: get_stock_data never raises to its caller: whatever the upstream
\* does, the call ends by returning the record of its symbol or None.
C16_NeverRaises ==
    \A t \in WorkerSet :
        /\ thr[t].pc \in {"idle", "lookup", "request", "store", "done"}
        /\ thr[t].pc = "done"
              => thr[t].ret \in {None, ParsedRecord(thr[t].symbol)}

\* One call has returned None after its requests failed, another has
\* returned a record that it fetched.
C16_Witness ==
    \E t, u \in WorkerSet :
        /\ thr[t].pc = "done" /\ thr[t].ret = None
        /\ thr[t].max_retries = MaxRetriesArg /\ obs.wire[t] > MaxRetriesArg
        /\ thr[u].pc = "done" /\ thr[u].ret = ParsedRecord(thr[u].symbol)
        /\ obs.wire[u] > 0

\* C18: when get_stock_data returns a record it has just fetched, the cache
\* already holds that record under the symbol, stamped with the current time,
\* and a get_cached_data(symbol) made at that moment returns it.
C18_WriteThroughBeforeReturn ==
    [][\A t \in WorkerSet :
         get_stock_data_store(t)
            => /\ thr'[t].pc = "done"
               /\ thr'[t].ret # None
               /\ thr[t].symbol \in DictKeys(REQUEST_CACHE')
               /\ DictGet(REQUEST_CACHE', thr[t].symbol).data = thr'[t].ret
               /\ DictGet(REQUEST_CACHE', thr[t].symbol).timestamp = now'
               /\ GetCachedBody(REQUEST_CACHE', thr[t].symbol, now').hit
               /\ GetCachedBody(REQUEST_CACHE', thr[t].symbol, now').ret = thr'[t].ret]_vars

\* A call has returned the record it fetched, and the cache holds the record
\* with the time of the return.
C18_Witness ==
    \E t \in WorkerSet :
        /\ thr[t].pc = "done"
        /\ thr[t].ret # None
        /\ obs.wire[t] > 0
        /\ thr[t].symbol \in DictKeys(REQUEST_CACHE)
        /\ DictGet(REQUEST_CACHE, thr[t].symbol).data = thr[t].ret
        /\ DictGet(REQUEST_CACHE, thr[t].symbol).timestamp = now
        /\ now > 0

\* C19 as claimed: the cache key carries the time bucket
\* floor(now / CACHE_DURATION), so a lookup made in a later bucket than the
\* one the record was written in does not find the record.
C19_KeyCarriesTimeBucket ==
    [][\A t \in WorkerSet :
         (/\ get_stock_data_lookup(t)
          /\ thr[t].symbol \in DictKeys(REQUEST_CACHE)
          /\ DictGet(REQUEST_CACHE, thr[t].symbol).timestamp \div CACHE_DURATION
                # now \div CACHE_DURATION)
            => thr'[t].ret = None]_vars

\* C32: within one get_stock_data call, a request attempt that follows
\* another one starts after a backoff sleep, whatever ended the earlier
\* attempt.
C32_BackoffBetweenAttempts ==
    [][\A t \in WorkerSet :
         (/\ thr[t].pc = "request"
          /\ thr'[t].pc = "request"
          /\ thr'[t].attempt = thr[t].attempt + 1)
            => thr'[t].slept > 0]_vars

\* =========================================================================
\* ParseSpec: get_stock_data calls whose requests are all answered 200, with
\* any text of TextSet as the body.
\* =========================================================================

\* Response texts of 1 to 12 parts with every last_price text.
TextSet == {PartsWith(n, last_price) : n \in {1, 5, 10, 11, 12}, last_price \in Tokens}

\* ParsedText of every text of TextSet for every symbol, as a table.
ParsedTexts ==
    [parts \in TextSet |-> [symbol \in SymbolSet |-> ParsedText(parts, symbol)]]

\* session.get returns a 200 with the text `parts` at the first request; the
\* rest of the try block.
session_get_text(t, parts) ==
    /\ thr[t].pc = "request"
    /\ obs' = [obs EXCEPT !.wire[t] = Min(@ + 1, thr[t].max_retries + 1)]
    /\ thr' = [thr EXCEPT ![t] = Received(@, ParsedTexts[parts][@.symbol])]
    /\ UNCHANGED <<now, REQUEST_CACHE, CACHE_HITS, CACHE_MISSES, cache_lock, sm>>

ParseNext ==
    \/ \E t \in WorkerSet, s \in SymbolSet, m \in 0..MaxRetriesArg :
          get_stock_data_call(t, s, m)
    \/ \E t \in WorkerSet : get_stock_data_lookup(t)
    \/ \E t \in WorkerSet, parts \in TextSet : session_get_text(t, parts)
    \/ \E t \in WorkerSet : get_stock_data_store(t)

ParseSpec == FetchInit /\ [][ParseNext]_vars

\* The text has fewer than 11 parts, or its last_price parses to a number
\* that is <= 0.
TooFewOrNotPositive(parts) ==
    \/ Len(parts) < 11
    \/ LET last_price == safe_float(parts[3], 0)
       IN  last_price.kind = "num" /\ last_price.v <= 0

BadTextSet == {parts \in TextSet : TooFewOrNotPositive(parts)}

\* C17: a response text with fewer than 11 parts or with a last_price <= 0
\* is never turned into a record: parse_stock_data yields None for it, and
\* the get_stock_data that received it neither goes on to cache and return a
\* record nor touches the cache.
C17_BadBodyNeverRecord ==
    [][\A t \in WorkerSet, parts \in BadTextSet :
         session_get_text(t, parts)
             => /\ parse_stock_data(parts, thr[t].symbol) = None
                /\ thr'[t].pc \in {"request", "done"}
                /\ thr'[t].ret = None
                /\ thr'[t].stock_data = None
                /\ REQUEST_CACHE' = REQUEST_CACHE]_vars

\* A call of one attempt has sent its request, got a 200 whose text gave no
\* record and returned None, with nothing cached for its symbol.
C17_Witness ==
    \E t \in WorkerSet :
        /\ thr[t].pc = "done"
        /\ thr[t].ret = None
        /\ thr[t].max_retries = 1
        /\ obs.wire[t] = 1
        /\ thr[t].symbol \notin DictKeys(REQUEST_CACHE)

\* C34: every cache entry holds a record (never None) whose symbol is the
\* entry's key, and a record on its way into the cache was parsed from a
\* text whose last_price is above 0.
C34_CacheHoldsValidRecords ==
    /\ [](\A i \in DOMAIN REQUEST_CACHE :
            /\ REQUEST_CACHE[i].data # None
            /\ REQUEST_CACHE[i].data = ParsedRecord(REQUEST_CACHE[i].key))
    /\ [][\A t \in WorkerSet, parts \in TextSet :
            (session_get_text(t, parts) /\ thr'[t].pc = "store")
                => LET last_price == safe_float(parts[3], 0)
                   IN  \/ last_price.kind = "num" /\ last_price.v > 0
                       \/ last_price.kind = "inf"]_vars

\* =========================================================================
\* PoolSpec: one get_smart_money call.  It submits get_stock_data for every
\* item of TARGET_SYMBOLS to a ThreadPoolExecutor(max_workers=MAX_WORKERS),
\* walks as_completed(future_to_symbol, timeout=45), leaves the `with` block
\* (executor.shutdown(wait=True)), sorts and returns its report.  The workers
\* run the get_stock_data steps of FetchSpec.
\* =========================================================================

\* TARGET_SYMBOLS lists 88 ids of which 50 are distinct; here three items
\* with one symbol listed twice.
TARGET_SYMBOLS == <<1, 2, 1>>

\* def get_stock_data(symbol, max_retries=3)
DEFAULT_MAX_RETRIES == 3

\* as_completed(future_to_symbol, timeout=45): 45 s, below the 60 s of
\* CACHE_DURATION; in ticks of the model clock.
AS_COMPLETED_TIMEOUT == 1

\* smart_money_score of an analysis; it is computed from the figures the
\* upstream sent, which the model leaves open.
ScoreSet == {25, 75}

FutureSet == 1..Len(TARGET_SYMBOLS)

\* future: state "pending" (in the executor's work queue), "running" or
\* "finished"; result is what get_stock_data returned.
\* running[t]: the future worker thread t is running, 0 for none.
\* pending_yield: the futures as_completed has not yielded yet.
\* timed_out: as_completed raised TimeoutError; unfinished: the futures that
\* were not finished at that moment.
\* report: <<>> until the call returns, then <<the returned dict>>.
PoolCall(start) ==
    [status |-> "iterating",
     start |-> start,
     futures |-> [i \in FutureSet |->
                    [symbol |-> TARGET_SYMBOLS[i], state |-> "pending", result |-> None]],
     running |-> [t \in WorkerSet |-> 0],
     pending_yield |-> FutureSet,
     results |-> <<>>,
     successful_analysis |-> 0,
     failed_analysis |-> 0,
     timed_out |-> FALSE,
     unfinished |-> {},
     report |-> <<>>]

PoolInit ==
    /\ now = 0
    /\ REQUEST_CACHE = <<>>
    /\ CACHE_HITS = 0
    /\ CACHE_MISSES = 0
    /\ cache_lock = Free
    /\ thr = [t \in WorkerSet |-> WorkerIdle]
    /\ obs = CacheObs0
    /\ sm = NoCall

\* start_time = time.time(); with ThreadPoolExecutor(...) as executor:
\*     future_to_symbol = {executor.submit(get_stock_data, symbol): symbol
\*                         for symbol in TARGET_SYMBOLS}
get_smart_money_call ==
    /\ sm.status = "idle"
    /\ sm' = PoolCall(now)
    /\ UNCHANGED <<now, REQUEST_CACHE, CACHE_HITS, CACHE_MISSES, cache_lock, thr, obs>>

\* worker_run without the test that the thread is free: a thread starting a
\* work item while it is still running one.
worker_runMutNotFree(t) ==
    /\ sm.status \in {"iterating", "exiting"}
    /\ \E i \in FutureSet :
         /\ sm.futures[i].state = "pending"
         /\ \A j \in FutureSet : sm.futures[j].state = "pending" => i <= j
         /\ sm' = [sm EXCEPT !.futures[i].state = "running", !.running[t] = i]
         /\ thr' = [thr EXCEPT ![t] = [WorkerIdle EXCEPT !.pc = "lookup",
                                          !.symbol = sm.futures[i].symbol,
                                          !.max_retries = DEFAULT_MAX_RETRIES]]
    /\ UNCHANGED <<now, REQUEST_CACHE, CACHE_HITS, CACHE_MISSES, cache_lock, obs>>

\* A worker thread of the executor takes the oldest work item of the queue
\* and calls get_stock_data(symbol).
worker_run(t) ==
    /\ sm.status \in {"iterating", "exiting"}
    /\ sm.running[t] = 0
    /\ \E i \in FutureSet :
         /\ sm.futures[i].state = "pending"
         /\ \A j \in FutureSet : sm.futures[j].state = "pending" => i <= j
         /\ sm' = [sm EXCEPT !.futures[i].state = "running", !.running[t] = i]
         /\ thr' = [thr EXCEPT ![t] = [WorkerIdle EXCEPT !.pc = "lookup",
                                          !.symbol = sm.futures[i].symbol,
                                          !.max_retries = DEFAULT_MAX_RETRIES]]
    /\ UNCHANGED <<now, REQUEST_CACHE, CACHE_HITS, CACHE_MISSES, cache_lock, obs>>

\* get_stock_data has returned: the worker sets the future's result.
worker_set_result(t) ==
    /\ sm.status \in {"iterating", "exiting"}
    /\ sm.running[t] # 0
    /\ thr[t].pc = "done"
    /\ sm' = [sm EXCEPT !.futures[sm.running[t]].state = "finished",
                        !.futures[sm.running[t]].result = thr[t].ret,
                        !.running[t] = 0]
    /\ thr' = [thr EXCEPT ![t] = WorkerIdle]
    /\ UNCHANGED <<now, REQUEST_CACHE, CACHE_HITS, CACHE_MISSES, cache_lock, obs>>

\* The entry the loop body appends for a future: the analysis of the record,
\* or the "no data" entry with score 0.
ResultEntry(future, score) ==
    IF future.result # None
    THEN [symbol |-> future.result, smart_money_score |-> score, analysis |-> "scored"]
    ELSE [symbol |-> future.symbol, smart_money_score |-> 0, analysis |-> "no_data"]

\* The loop body with the `else` branch counting into successful_analysis.
as_completed_yieldMutCount(i, score) ==
    /\ sm.status = "iterating"
    /\ i \in sm.pending_yield
    /\ sm.futures[i].state = "finished"
    /\ sm' = [sm EXCEPT
                !.pending_yield = @ \ {i},
                !.results = Append(@, ResultEntry(sm.futures[i], score)),
                !.successful_analysis = @ + 1]
    /\ UNCHANGED <<now, REQUEST_CACHE, CACHE_HITS, CACHE_MISSES, cache_lock, thr, obs>>

\* as_completed yields a finished future; the loop body appends its entry.
as_completed_yield(i, score) ==
    /\ sm.status = "iterating"
    /\ i \in sm.pending_yield
    /\ sm.futures[i].state = "finished"
    /\ sm' = [sm EXCEPT
                !.pending_yield = @ \ {i},
                !.results = Append(@, ResultEntry(sm.futures[i], score)),
                !.successful_analysis =
                    IF sm.futures[i].result # None THEN @ + 1 ELSE @,
                !.failed_analysis =
                    IF sm.futures[i].result # None THEN @ ELSE @ + 1]
    /\ UNCHANGED <<now, REQUEST_CACHE, CACHE_HITS, CACHE_MISSES, cache_lock, thr, obs>>

\* as_completed: wait_timeout = end_time - time.monotonic();
\* if wait_timeout < 0: raise TimeoutError.  The exception leaves the for
\* loop and enters ThreadPoolExecutor.__exit__.
as_completed_timeout ==
    /\ sm.status = "iterating"
    /\ sm.pending_yield # {}
    /\ now - sm.start > AS_COMPLETED_TIMEOUT
    /\ sm' = [sm EXCEPT !.status = "exiting", !.timed_out = TRUE,
                        !.unfinished =
                            {i \in FutureSet : sm.futures[i].state # "finished"}]
    /\ UNCHANGED <<now, REQUEST_CACHE, CACHE_HITS, CACHE_MISSES, cache_lock, thr, obs>>

\* as_completed is exhausted: the for loop ends and the `with` block is left.
as_completed_end ==
    /\ sm.status = "iterating"
    /\ sm.pending_yield = {}
    /\ sm' = [sm EXCEPT !.status = "exiting"]
    /\ UNCHANGED <<now, REQUEST_CACHE, CACHE_HITS, CACHE_MISSES, cache_lock, thr, obs>>

\* results.sort(key=lambda x: x.get('smart_money_score', 0), reverse=True):
\* a stable sort, entries of equal score keep their order.
RECURSIVE InsertByScore(_, _)
InsertByScore(sorted, e) ==
    IF sorted = <<>> THEN <<e>>
    ELSE IF Head(sorted).smart_money_score >= e.smart_money_score
         THEN <<Head(sorted)>> \o InsertByScore(Tail(sorted), e)
         ELSE <<e>> \o sorted

RECURSIVE SortByScore(_)
SortByScore(results) ==
    IF results = <<>> THEN <<>>
    ELSE InsertByScore(SortByScore(SubSeq(results, 1, Len(results) - 1)),
                       results[Len(results)])

\* The dict get_smart_money returns: the 'success' report after the loop,
\* or the 'error' report of the outer `except Exception`.
\* 'success_rate': round((successful_analysis / len(TARGET_SYMBOLS)) * 100, 1)
\* raises ZeroDivisionError for an empty list, which the outer except turns
\* into the 'error' report as well.
Report(call) ==
    IF call.timed_out \/ Len(TARGET_SYMBOLS) = 0
    THEN [status |-> "error"]
    ELSE [status |-> "success",
          total_stocks |-> Len(TARGET_SYMBOLS),
          successful_analysis |-> call.successful_analysis,
          failed_analysis |-> call.failed_analysis,
          all_analysis |-> SortByScore(call.results)]

\* ThreadPoolExecutor.__exit__ is executor.shutdown(wait=True): it joins the
\* worker threads, which first run every work item still in the queue.  Then
\* the function returns.
get_smart_money_return ==
    /\ sm.status = "exiting"
    /\ \A i \in FutureSet : sm.futures[i].state = "finished"
    /\ sm' = [sm EXCEPT !.status = "returned", !.report = <<Report(sm)>>]
    /\ UNCHANGED <<now, REQUEST_CACHE, CACHE_HITS, CACHE_MISSES, cache_lock, thr, obs>>

PoolNext ==
    \/ Tick
    \/ get_smart_money_call
    \/ \E t \in WorkerSet : worker_run(t)
    \/ \E t \in WorkerSet : get_stock_data_lookup(t)
    \/ \E t \in WorkerSet, o \in Outcomes, n \in 1..(RETRY_TOTAL + 1) :
          session_get(t, o, n)
    \/ \E t \in WorkerSet : get_stock_data_store(t)
    \/ \E t \in WorkerSet : worker_set_result(t)
    \/ \E i \in FutureSet, score \in ScoreSet : as_completed_yield(i, score)
    \/ as_completed_timeout
    \/ as_completed_end
    \/ get_smart_money_return

PoolSpec == PoolInit /\ [][PoolNext]_vars

\* C2 as claimed: when the overall timeout elapses with fetches outstanding,
\* the returned report is a 'success' report that holds the analysis of every
\* symbol whose fetch had completed, and a failure entry for every symbol
\* whose fetch was outstanding.
C2_TimeoutKeepsCompletedResults ==
    (sm.status = "returned" /\ sm.timed_out /\ sm.unfinished # {})
        => LET report == sm.report[1]
           IN  /\ report.status = "success"
               /\ \A i \in FutureSet :
                     \E j \in 1..Len(report.all_analysis) :
                        /\ report.all_analysis[j].symbol = sm.futures[i].symbol
                        /\ i \in sm.unfinished
                              => report.all_analysis[j].analysis # "scored"

\* C3 as claimed: once the timeout has occurred the call returns without
\* waiting for the fetches still in flight: its return is not held back by
\* any of them.
C3_ReturnsWithoutWaiting ==
    (/\ sm.status = "exiting"
     /\ sm.timed_out
     /\ \E i \in FutureSet : sm.futures[i].state = "running")
        => ENABLED get_smart_money_return

\* C11 as claimed: the symbols submitted to the pool in one get_smart_money
\* call are pairwise distinct, and total_stocks of the report is the number
\* of distinct symbols.
C11_SubmitsEachSymbolOnce ==
    sm.status # "idle"
        => /\ \A i, j \in FutureSet :
                 i # j => sm.futures[i].symbol # sm.futures[j].symbol
           /\ (sm.status = "returned" /\ ~sm.timed_out)
                 => sm.report[1].total_stocks
                      = Cardinality({sm.futures[i].symbol : i \in FutureSet})

\* The futures whose get_stock_data call is in flight.
InFlight == {i \in FutureSet : sm.futures[i].state = "running"}

\* C12: at every moment of a get_smart_money call, at most MAX_WORKERS
\* get_stock_data calls are in flight.
C12_InFlightAtMostMaxWorkers ==
    sm.status # "idle" => Cardinality(InFlight) <= MAX_WORKERS

\* MAX_WORKERS fetches are in flight while another submitted one waits in the
\* queue.
C12_Witness ==
    /\ sm.status = "iterating"
    /\ Cardinality(InFlight) = MAX_WORKERS
    /\ \E i \in FutureSet : sm.futures[i].state = "pending"
    /\ \A t \in WorkerSet : thr[t].pc = "request"

\* The futures whose get_stock_data returned a record, and those whose
\* get_stock_data returned None.
Fetched == {i \in FutureSet : sm.futures[i].result # None}
NotFetched == {i \in FutureSet : sm.futures[i].result = None}

\* C13: without an overall timeout, the report counts the fetches that
\* succeeded in successful_analysis, the fetches that failed in
\* failed_analysis and all submitted symbols in total_stocks, so the two
\* counts add up to the total.
C13_ReportCountsAddUp ==
    (sm.status = "returned" /\ ~sm.timed_out)
        => LET report == sm.report[1]
           IN  /\ report.status = "success"
               /\ report.successful_analysis = Cardinality(Fetched)
               /\ report.failed_analysis = Cardinality(NotFetched)
               /\ report.total_stocks = Len(TARGET_SYMBOLS)
               /\ report.successful_analysis + report.failed_analysis
                     = report.total_stocks

\* A call has returned, without timeout, a report of some fetched and some
\* failed symbols.
C13_Witness ==
    /\ sm.status = "returned"
    /\ ~sm.timed_out
    /\ Fetched # {}
    /\ NotFetched # {}
    /\ sm.report[1].failed_analysis >= 1
    /\ sm.report[1].successful_analysis >= 1

\* C14 as claimed: whatever symbols fail to fetch, every symbol included,
\* get_smart_money returns a 'success' report with an entry for every
\* submitted symbol.
C14_FailuresNeverAbort ==
    (sm.status = "returned" /\ NotFetched # {})
        => LET report == sm.report[1]
           IN  /\ report.status = "success"
               /\ Len(report.all_analysis) = Len(TARGET_SYMBOLS)
               /\ \A i \in FutureSet :
                     \E j \in 1..Len(report.all_analysis) :
                        report.all_analysis[j].symbol = sm.futures[i].symbol

\* C23: in the report, entries of equal score are in one fixed order
\* whatever the completion order of the fetches; the "no data" entries all
\* have score 0 and no traded value, so they follow one another by symbol
\* ascending.
C23_TiesOrderedBySymbol ==
    (sm.status = "returned" /\ sm.report[1].status = "success") =>
        LET all_analysis == sm.report[1].all_analysis
        IN  \A i, j \in DOMAIN all_analysis :
               (/\ i < j
                /\ all_analysis[i].analysis = "no_data"
                /\ all_analysis[j].analysis = "no_data")
                  => all_analysis[i].symbol <= all_analysis[j].symbol

\* PoolLiveSpec: the get_smart_money call of PoolSpec with the scheduling
\* the claim of termination assumes.  Neither the number of requests behind
\* a session.get nor the score of an analysis is read by any guard, so each
\* is fixed here.  A worker thread that can take its next step takes it (threads
\* are scheduled, and cache_lock is held only across the few statements of a
\* `with` block), every session.get returns with some outcome (its requests
\* have a timeout and urllib3 re-sends at most Retry.total times), and the
\* thread of get_smart_money goes on from as_completed whenever it can.
PoolFairness ==
    /\ \A t \in WorkerSet :
          /\ WF_vars(worker_run(t))
          /\ WF_vars(get_stock_data_lookup(t))
          /\ WF_vars(\E o \in Outcomes : session_get(t, o, RETRY_TOTAL + 1))
          /\ WF_vars(get_stock_data_store(t))
          /\ WF_vars(worker_set_result(t))
    /\ WF_vars(\E i \in FutureSet : as_completed_yield(i, 75))
    /\ WF_vars(as_completed_end)
    /\ WF_vars(get_smart_money_return)

PoolLiveNext ==
    \/ Tick
    \/ get_smart_money_call
    \/ \E t \in WorkerSet : worker_run(t)
    \/ \E t \in WorkerSet : get_stock_data_lookup(t)
    \/ \E t \in WorkerSet, o \in Outcomes : session_get(t, o, RETRY_TOTAL + 1)
    \/ \E t \in WorkerSet : get_stock_data_store(t)
    \/ \E t \in WorkerSet : worker_set_result(t)
    \/ \E i \in FutureSet : as_completed_yield(i, 75)
    \/ as_completed_timeout
    \/ as_completed_end
    \/ get_smart_money_return

PoolLiveSpec == PoolInit /\ [][PoolLiveNext]_vars /\ PoolFairness

\* C35: every get_stock_data call a worker has started comes to its return,
\* with its loop counter never above max_retries, and every get_smart_money
\* call that has started comes to return a report.
C35_CallsTerminate ==
    /\ [](\A t \in WorkerSet : thr[t].attempt <= thr[t].max_retries)
    /\ \A t \in WorkerSet : (thr[t].pc = "lookup") ~> (thr[t].pc = "done")
    /\ (sm.status = "iterating") ~> (sm.status = "returned" /\ sm.report # <<>>)

\* A get_smart_money call has returned its report after a fetch that used up
\* its attempts and returned None.
C35_Witness ==
    /\ sm.status = "returned"
    /\ sm.report # <<>>
    /\ \E i \in FutureSet : sm.futures[i].result = None

\* =========================================================================
\* ScanSpec: the /smart_money endpoint of src/main.py, which scans the
\* symbols of symbols.txt with SmartMoneyDetector.scan_symbols_from_file
\* (src/modules/smart_money.py).  sm is the request being served.
\* =========================================================================

\* A line of symbols.txt: a symbol id, or 0 for a line that is blank after
\* strip().
LineSet == {0, 1, 2}

RECURSIVE SeqsUpTo(_, _)
SeqsUpTo(S, n) ==
    IF n = 0 THEN {<<>>}
    ELSE LET shorter == SeqsUpTo(S, n - 1)
         IN  shorter \cup {Append(q, x) : q \in shorter, x \in S}

\* symbols.txt: missing, or a sequence of lines.
FileSet ==
    {[exists |-> FALSE, lines |-> <<>>]}
        \cup {[exists |-> TRUE, lines |-> l] : l \in SeqsUpTo(LineSet, MaxLines)}

\* symbols = [line.strip() for line in f.readlines() if line.strip()]
RECURSIVE StripLines(_)
StripLines(lines) ==
    IF lines = <<>> THEN <<>>
    ELSE IF Head(lines) = 0 THEN StripLines(Tail(lines))
         ELSE <<Head(lines)>> \o StripLines(Tail(lines))

\* The dicts scan_symbols_from_file returns.
ScanError(message) ==
    [status |-> "error", message |-> message, symbols_with_smart_money |-> <<>>,
     total_symbols |-> 0, smart_money_count |-> 0]

ScanSuccess(symbols, results) ==
    [status |-> "success", symbols_with_smart_money |-> results,
     total_symbols |-> Len(symbols), smart_money_count |-> Len(results)]

\* smart_money_endpoint: the JSON body and the HTTP code made of the scan's
\* dict.
Respond(results) ==
    IF results.status = "error"
    THEN [code |-> 400, status |-> "error", smart_money_count |-> 0,
          total_symbols |-> 0]
    ELSE [code |-> 200, status |-> "success",
          smart_money_count |-> results.smart_money_count,
          total_symbols |-> results.total_symbols]

ScanInit ==
    /\ now = 0
    /\ REQUEST_CACHE = <<>>
    /\ CACHE_HITS = 0
    /\ CACHE_MISSES = 0
    /\ cache_lock = Free
    /\ thr = NoThreads
    /\ obs = CacheObs0
    /\ sm = NoCall

\* GET /smart_money: scan_symbols_from_file opens and reads symbols.txt;
\* a missing file and an empty symbol list each end the scan with an 'error'
\* dict.
scan_symbols_from_file_open(file) ==
    /\ sm.status \in {"idle", "responded"}
    /\ LET symbols == StripLines(file.lines)
       IN  sm' = IF ~file.exists
                 THEN [status |-> "scanned", file |-> file, symbols |-> <<>>,
                       results |-> ScanError("not_found")]
                 ELSE IF symbols = <<>>
                 THEN [status |-> "scanned", file |-> file, symbols |-> symbols,
                       results |-> ScanError("empty")]
                 ELSE [status |-> "scanning", file |-> file, symbols |-> symbols,
                       next |-> 1, results |-> <<>>]
    /\ UNCHANGED <<now, REQUEST_CACHE, CACHE_HITS, CACHE_MISSES, cache_lock, thr, obs>>

\* for symbol in symbols: result = self.check_smart_money_condition(symbol);
\* if result['has_smart_money']: results.append(result)
scan_symbols_from_file_check(has_smart_money) ==
    /\ sm.status = "scanning"
    /\ sm.next <= Len(sm.symbols)
    /\ sm' = [sm EXCEPT !.next = @ + 1,
                        !.results = IF has_smart_money
                                    THEN Append(@, sm.symbols[sm.next])
                                    ELSE @]
    /\ UNCHANGED <<now, REQUEST_CACHE, CACHE_HITS, CACHE_MISSES, cache_lock, thr, obs>>

\* The loop is over: return {'status': 'success', ...}
scan_symbols_from_file_return ==
    /\ sm.status = "scanning"
    /\ sm.next > Len(sm.symbols)
    /\ sm' = [status |-> "scanned", file |-> sm.file, symbols |-> sm.symbols,
              results |-> ScanSuccess(sm.symbols, sm.results)]
    /\ UNCHANGED <<now, REQUEST_CACHE, CACHE_HITS, CACHE_MISSES, cache_lock, thr, obs>>

\* smart_money_endpoint answers the request.
smart_money_endpoint_respond ==
    /\ sm.status = "scanned"
    /\ sm' = [status |-> "responded", file |-> sm.file, symbols |-> sm.symbols,
              response |-> Respond(sm.results)]
    /\ UNCHANGED <<now, REQUEST_CACHE, CACHE_HITS, CACHE_MISSES, cache_lock, thr, obs>>

ScanNext ==
    \/ \E file \in FileSet : scan_symbols_from_file_open(file)
    \/ \E has_smart_money \in BOOLEAN : scan_symbols_from_file_check(has_smart_money)
    \/ scan_symbols_from_file_return
    \/ smart_money_endpoint_respond

ScanSpec == ScanInit /\ [][ScanNext]_vars

\* C15 as claimed: a scan of an existing symbols.txt that holds no symbol is
\* answered with HTTP 200, status 'success' and a success count of 0.
C15_EmptyListIsSuccess ==
    (sm.status = "responded" /\ sm.file.exists /\ sm.symbols = <<>>)
        => /\ sm.response.code = 200
           /\ sm.response.status = "success"
           /\ sm.response.smart_money_count = 0

\* =========================================================================
\* SweepSpec: set_cached_data calls between the sweeps of cleanup_cache
\* (@app.before_request), with two keys more than MAX_CACHE_SIZE, so that a
\* sweep can find the cache more than one entry over its size.
\* =========================================================================
SweepKeySet == 1..(MAX_CACHE_SIZE + 2)

SweepNext ==
    \/ Tick
    \/ \E k \in SweepKeySet : set_cached_data(k, 1)
    \/ cleanup_cache

SweepSpec == CacheInit /\ [][SweepNext]_vars

\* C20 as claimed: a sweep that is left with more than MAX_CACHE_SIZE entries
\* after its expiry pass evicts half of these entries, and every entry it
\* evicts has a timestamp no newer than that of every entry it retains.
C20_EvictsOldestHalf ==
    [][cleanup_cache =>
         LET c1 == AfterExpiry(REQUEST_CACHE, now)
         IN  Len(c1) > MAX_CACHE_SIZE
                => /\ Len(c1) - Len(REQUEST_CACHE') = Len(c1) \div 2
                   /\ \A i \in DOMAIN c1, j \in DOMAIN REQUEST_CACHE' :
                         c1[i].key \notin DictKeys(REQUEST_CACHE')
                            => c1[i].timestamp <= REQUEST_CACHE'[j].timestamp]_vars

\* C31: when a cleanup_cache call completes, the cache holds at most
\* MAX_CACHE_SIZE entries, whatever set_cached_data put into it since the
\* sweep before.
C31_SweepLeavesAtMostMaxSize ==
    [][cleanup_cache => Len(REQUEST_CACHE') <= MAX_CACHE_SIZE]_vars

\* =========================================================================
\* ScoreSpec: parse_stock_data building a record from the numeric fields of
\* a response, and analyze_smart_money_enhanced scoring that record, called
\* up to MaxCalls times on the same record.
\*
\* Units: Python's ints and floats have no width that matters here, the
\* model's integers do, so volume is counted in units of 100000 shares and
\* value and avg_trade_size in millions of rials, and a threshold of the
\* source is divided by the same unit (volume > 50000000 reads volume > 500).  Prices
\* and count are as in the source.  A float quotient n / d is kept as the
\* pair of its terms and compared by cross-multiplication.
\* =========================================================================
MaxCalls == 2

\* The fields of a response, values on both sides of every threshold of the
\* rules below and the zeros.
VolumeSet == {0, 1, 2, 50, 101, 501, 8001}
ValueSet == {0, 500, 6000, 10001, 50001, 100001, 1100000}
PriceSet == {0, 950, 1000, 1020, 1100}
CountSet == {0, 50, 200, 1001, 5001, 10001}

FieldsSet ==
    [last_price : PriceSet, yesterday_price : PriceSet, volume : VolumeSet,
     value : ValueSet, count : CountSet]

\* n / d; Python raises ZeroDivisionError for d = 0.
Quotient(n, d) == [n |-> n, d |-> d]
Zero == Quotient(0, 1)
ZeroDivision(q) == q.d = 0

\* q > k for a whole k, and q > k / 10
Gt(q, k) == q.n > k * q.d
GtTenths(q, k) == 10 * q.n > k * q.d

\* if parsed_data['count'] > 0 and parsed_data['value'] > 0, without the
\* test of count
HasTradesMutNoCountTest(count, value) == value > 0

HasTrades(count, value) == count > 0 /\ value > 0

\* parse_stock_data from parsed_data = {...} on: [ret, raised], ret <<the
\* record>> or <<>> for None, raised whether an exception reached its
\* `except`.
parsed_data(symbol, fields) ==
    LET avg_trade_size ==
            IF HasTrades(fields.count, fields.value)
            THEN Quotient(fields.value, fields.count)
            ELSE Zero
        price_change_percent ==
            IF fields.yesterday_price > 0
            THEN Quotient((fields.last_price - fields.yesterday_price) * 100,
                          fields.yesterday_price)
            ELSE Zero
    IN  IF fields.last_price <= 0 THEN [ret |-> <<>>, raised |-> FALSE]
        ELSE IF ZeroDivision(avg_trade_size) \/ ZeroDivision(price_change_percent)
        THEN [ret |-> <<>>, raised |-> TRUE]
        ELSE [ret |-> <<[symbol |-> symbol,
                       last_price |-> fields.last_price,
                       yesterday_price |-> fields.yesterday_price,
                       volume |-> fields.volume,
                       value |-> fields.value,
                       count |-> fields.count,
                       avg_trade_size |-> avg_trade_size,
                       price_change_percent |-> price_change_percent]>>,
              raised |-> FALSE]

\* The six rules: what each adds to smart_money_score and how many entries
\* it appends to risk_factors.
Rule(points, risk) == [points |-> points, risk |-> risk]

\* 1. volume
VolumeRule(volume) ==
    CASE volume > 500 -> Rule(25, 0)
      [] volume > 100 -> Rule(20, 0)
      [] volume > 10 -> Rule(15, 0)
      [] volume > 1 -> Rule(8, 1)
      [] OTHER -> Rule(2, 1)

\* 2. value_billions = value / 1000000000
ValueRule(value) ==
    CASE value > 100000 -> Rule(25, 0)
      [] value > 50000 -> Rule(20, 0)
      [] value > 10000 -> Rule(15, 0)
      [] value > 1000 -> Rule(10, 0)
      [] OTHER -> Rule(3, 1)

\* 3. avg_millions = avg_trade_size / 1000000
AvgTradeRule(avg_trade_size) ==
    CASE Gt(avg_trade_size, 100) -> Rule(20, 0)
      [] Gt(avg_trade_size, 50) -> Rule(15, 0)
      [] Gt(avg_trade_size, 10) -> Rule(10, 0)
      [] Gt(avg_trade_size, 1) -> Rule(5, 0)
      [] OTHER -> Rule(1, 1)

\* 4. price_change_percent
PriceChangeRule(price_change_percent) ==
    CASE Gt(price_change_percent, 7) -> Rule(15, 0)
      [] Gt(price_change_percent, 3) -> Rule(12, 0)
      [] Gt(price_change_percent, 0) -> Rule(8, 0)
      [] Gt(price_change_percent, 0 - 3) -> Rule(5, 0)
      [] Gt(price_change_percent, 0 - 7) -> Rule(2, 1)
      [] OTHER -> Rule(0, 1)

\* 5. count
CountRule(count) ==
    CASE count > 10000 -> Rule(10, 0)
      [] count > 5000 -> Rule(8, 0)
      [] count > 1000 -> Rule(6, 0)
      [] count > 100 -> Rule(3, 0)
      [] OTHER -> Rule(1, 1)

\* 6. liquidity_ratio = (volume * last_price) / value if value > 0 else 0,
\* under `if volume > 0 and last_price > 0`
liquidity_ratio(volume, last_price, value) ==
    IF value > 0 THEN Quotient(volume * last_price, value * 10) ELSE Zero

LiquidityRule(volume, last_price, value) ==
    IF volume > 0 /\ last_price > 0
    THEN LET r == liquidity_ratio(volume, last_price, value)
         IN  CASE ZeroDivision(r) -> Rule(0, 0)
               [] GtTenths(r, 8) -> Rule(5, 0)
               [] GtTenths(r, 5) -> Rule(3, 0)
               [] OTHER -> Rule(1, 1)
    ELSE Rule(0, 0)

\* risk_level from len(risk_factors)
risk_level(risk_factors) ==
    IF risk_factors = 0 THEN "low"
    ELSE IF risk_factors <= 2 THEN "medium"
    ELSE "high"

\* recommendation from smart_money_score and risk_level; the source's
\* Persian labels read strong buy, buy, gradual buy, hold, caution, gradual
\* sell and sell.
recommendation(smart_money_score, level) ==
    CASE smart_money_score >= 85 /\ level = "low" -> "strong_buy"
      [] smart_money_score >= 75 -> "buy"
      [] smart_money_score >= 60 -> "gradual_buy"
      [] smart_money_score >= 45 -> "hold"
      [] smart_money_score >= 30 -> "caution"
      [] smart_money_score >= 20 -> "gradual_sell"
      [] OTHER -> "sell"

\* The dict of `if not stock_data` and the dict of `except Exception`.
NoDataAnalysis ==
    [symbol |-> None, smart_money_score |-> 0, recommendation |-> "unknown",
     risk_level |-> "high", raised |-> FALSE]

ErrorAnalysis(stock_data) ==
    [symbol |-> stock_data.symbol, smart_money_score |-> 0,
     recommendation |-> "unknown", risk_level |-> "high", raised |-> TRUE]

\* The sum of the rules with the liquidity rule run twice.
RulesMutLiquidityTwice(stock_data) ==
    <<VolumeRule(stock_data.volume),
      ValueRule(stock_data.value),
      AvgTradeRule(stock_data.avg_trade_size),
      PriceChangeRule(stock_data.price_change_percent),
      CountRule(stock_data.count),
      LiquidityRule(stock_data.volume, stock_data.last_price, stock_data.value),
      LiquidityRule(stock_data.volume, stock_data.last_price, stock_data.value)>>

Rules(stock_data) ==
    <<VolumeRule(stock_data.volume),
      ValueRule(stock_data.value),
      AvgTradeRule(stock_data.avg_trade_size),
      PriceChangeRule(stock_data.price_change_percent),
      CountRule(stock_data.count),
      LiquidityRule(stock_data.volume, stock_data.last_price, stock_data.value)>>

RECURSIVE SumPoints(_, _)
SumPoints(rules, n) == IF n = 0 THEN 0 ELSE SumPoints(rules, n - 1) + rules[n].points

RECURSIVE SumRisk(_, _)
SumRisk(rules, n) == IF n = 0 THEN 0 ELSE SumRisk(rules, n - 1) + rules[n].risk

\* analyze_smart_money_enhanced(stock_data), stock_data <<the record>> or
\* <<>> for None: the returned dict; raised is whether it is the dict of the
\* `except`.
analyze_smart_money_enhanced(record) ==
    IF record = <<>> THEN NoDataAnalysis
    ELSE LET stock_data == record[1] IN
    IF ZeroDivision(liquidity_ratio(stock_data.volume, stock_data.last_price,
                                    stock_data.value))
    THEN ErrorAnalysis(stock_data)
    ELSE LET rules == Rules(stock_data)
             smart_money_score == SumPoints(rules, Len(rules))
             level == risk_level(SumRisk(rules, Len(rules)))
         IN  [symbol |-> stock_data.symbol,
              smart_money_score |-> smart_money_score,
              recommendation |-> recommendation(smart_money_score, level),
              risk_level |-> level,
              raised |-> FALSE]

\* sm: the fields received, what parse_stock_data returned, the record object
\* as it is now, and the dicts the calls of analyze_smart_money_enhanced
\* returned (one entry of METRICS each).
ScoreCall(fields) ==
    [status |-> "received", fields |-> fields, parsed |-> <<>>,
     stock_data |-> <<>>, raised |-> FALSE, analyses |-> <<>>]

ScoreInit ==
    /\ now = 0
    /\ REQUEST_CACHE = <<>>
    /\ CACHE_HITS = 0
    /\ CACHE_MISSES = 0
    /\ cache_lock = Free
    /\ thr = NoThreads
    /\ obs = CacheObs0
    /\ sm \in {ScoreCall(fields) : fields \in FieldsSet}

parse_stock_data_fields ==
    /\ sm.status = "received"
    /\ LET p == parsed_data(1, sm.fields)
       IN  sm' = [sm EXCEPT !.status = "parsed", !.parsed = p.ret,
                            !.stock_data = p.ret, !.raised = p.raised]
    /\ UNCHANGED <<now, REQUEST_CACHE, CACHE_HITS, CACHE_MISSES, cache_lock, thr, obs>>

\* A call that stores its score in the record it was given.
analyze_smart_money_enhanced_callMutWritesBack ==
    /\ sm.status = "parsed"
    /\ Len(sm.analyses) < MaxCalls
    /\ LET a == analyze_smart_money_enhanced(sm.stock_data)
       IN  sm' = [sm EXCEPT !.analyses = Append(@, a),
                            !.raised = @ \/ a.raised,
                            !.stock_data =
                                IF @ = <<>> THEN @
                                ELSE <<[@[1] EXCEPT !.count = a.smart_money_score]>>]
    /\ UNCHANGED <<now, REQUEST_CACHE, CACHE_HITS, CACHE_MISSES, cache_lock, thr, obs>>

\* analyze_smart_money_enhanced(stock_data) is called and returns; it reads
\* the record with stock_data.get and assigns to none of its keys.
analyze_smart_money_enhanced_call ==
    /\ sm.status = "parsed"
    /\ Len(sm.analyses) < MaxCalls
    /\ LET a == analyze_smart_money_enhanced(sm.stock_data)
       IN  sm' = [sm EXCEPT !.analyses = Append(@, a),
                            !.raised = @ \/ a.raised]
    /\ UNCHANGED <<now, REQUEST_CACHE, CACHE_HITS, CACHE_MISSES, cache_lock, thr, obs>>

ScoreNext ==
    \/ parse_stock_data_fields
    \/ analyze_smart_money_enhanced_call

ScoreSpec == ScoreInit /\ [][ScoreNext]_vars

\* C24: the smart_money_score of every dict analyze_smart_money_enhanced
\* returns is within [0, 100], whatever the volume, value, prices and count
\* of the record.
C24_ScoreWithinBounds ==
    \A i \in DOMAIN sm.analyses :
        /\ sm.analyses[i].smart_money_score >= 0
        /\ sm.analyses[i].smart_money_score <= 100

\* A record that triggers the top branch of every rule was scored 100, and
\* the call did not end in its `except`.
C24_Witness ==
    /\ sm.analyses # <<>>
    /\ sm.analyses[1].smart_money_score = 100
    /\ ~sm.analyses[1].raised
    /\ sm.fields.count > 10000

\* C25: the recommendation of a scored record is given by its score alone,
\* in five tiers: strong buy from 80, buy from 60, hold from 40, caution
\* from 20, sell below.
C25_FiveTiersByScore ==
    \A i \in DOMAIN sm.analyses :
        sm.analyses[i].recommendation # "unknown" =>
            sm.analyses[i].recommendation =
                CASE sm.analyses[i].smart_money_score >= 80 -> "strong_buy"
                  [] sm.analyses[i].smart_money_score >= 60 -> "buy"
                  [] sm.analyses[i].smart_money_score >= 40 -> "hold"
                  [] sm.analyses[i].smart_money_score >= 20 -> "caution"
                  [] OTHER -> "sell"

\* C26: the record of volume 5,000,000, last_price 1000, value
\* 6,000,000,000 and 200 trades is scored 90.
C26_ScenarioScores90 ==
    (/\ sm.fields.volume = 50
     /\ sm.fields.last_price = 1000
     /\ sm.fields.value = 6000
     /\ sm.fields.count = 200
     /\ sm.analyses # <<>>)
        => sm.analyses[1].smart_money_score = 90

C28_ZeroFieldsNeverDivide ==
    /\ (sm.parsed # <<>> /\ sm.parsed[1].count = 0)
          => sm.parsed[1].avg_trade_size = Zero
    /\ (\/ sm.fields.count = 0
        \/ sm.fields.volume = 0
        \/ sm.fields.value = 0
        \/ sm.fields.yesterday_price = 0)
          => /\ ~sm.raised
             /\ \A i \in DOMAIN sm.analyses : ~sm.analyses[i].raised

\* A record with no trades and no yesterday_price, but a traded value, was
\* parsed and scored by the rules.
C28_Witness ==
    /\ sm.fields.count = 0
    /\ sm.fields.yesterday_price = 0
    /\ sm.fields.value > 0
    /\ sm.parsed # <<>>
    /\ sm.analyses # <<>>
    /\ sm.analyses[1].smart_money_score > 0

\* =========================================================================
\* NormSpec: the numeric normalizers safe_float and safe_int (src/app.py) and
\* safe_convert_to_number (src/src/utils/helpers.py), each called once on one
\* value with one default.
\* =========================================================================
DefaultSet == {0, 1}

\* results: per normalizer <<>> before its call, then <<[raised, ret]>>:
\* whether the call raised, and the float it returned otherwise.
NormCall(value, default) ==
    [status |-> "normalizing", value |-> value, default |-> default,
     safe_float |-> <<>>, safe_int |-> <<>>, safe_convert_to_number |-> <<>>]

NormInit ==
    /\ now = 0
    /\ REQUEST_CACHE = <<>>
    /\ CACHE_HITS = 0
    /\ CACHE_MISSES = 0
    /\ cache_lock = Free
    /\ thr = NoThreads
    /\ obs = CacheObs0
    /\ sm \in {NormCall(value, default) :
                  value \in NormalizerInputs, default \in DefaultSet}

safe_float_call ==
    /\ sm.safe_float = <<>>
    /\ sm' = [sm EXCEPT !.safe_float =
                 <<[raised |-> FALSE, ret |-> safe_float(sm.value, sm.default)]>>]
    /\ UNCHANGED <<now, REQUEST_CACHE, CACHE_HITS, CACHE_MISSES, cache_lock, thr, obs>>

safe_int_call ==
    /\ sm.safe_int = <<>>
    /\ LET r == safe_int(sm.value, sm.default)
       IN  sm' = [sm EXCEPT !.safe_int =
                    <<[raised |-> r.raised, ret |-> Num(r.v)]>>]
    /\ UNCHANGED <<now, REQUEST_CACHE, CACHE_HITS, CACHE_MISSES, cache_lock, thr, obs>>

safe_convert_to_number_call ==
    /\ sm.safe_convert_to_number = <<>>
    /\ sm' = [sm EXCEPT !.safe_convert_to_number =
                 <<[raised |-> FALSE,
                    ret |-> safe_convert_to_number(sm.value, sm.default)]>>]
    /\ UNCHANGED <<now, REQUEST_CACHE, CACHE_HITS, CACHE_MISSES, cache_lock, thr, obs>>

NormNext ==
    \/ safe_float_call
    \/ safe_int_call
    \/ safe_convert_to_number_call

NormSpec == NormInit /\ [][NormNext]_vars

\* C29: no call of safe_float, safe_int or safe_convert_to_number raises,
\* whatever the value (None, '', malformed text, a thousands separator,
\* 'nan', 'inf'), and for None, '' and text that is no number the call
\* returns the default it was given.
C29_NormalizersNeverRaise ==
    \A r \in {sm.safe_float, sm.safe_int, sm.safe_convert_to_number} :
        r # <<>> =>
            /\ ~r[1].raised
            /\ sm.value \in {"<None>", "", "abc"} => r[1].ret = Num(sm.default)

\* =========================================================================
\* ConfigSpec: the process from its start.  The class body of Config reads
\* four integers from the environment when the module is loaded, config =
\* Config() follows, and then requests to /smart-money are served:
\* get_smart_money opens ThreadPoolExecutor(max_workers=config.MAX_WORKERS),
\* which raises ValueError for max_workers <= 0, inside the try whose
\* `except Exception` returns the 'error' report.
\* =========================================================================
\* The value of an environment variable: not set, no integer, or an integer.
EnvTexts == {"<unset>", "abc", "-1", "0", "2"}

ConfigFields == {"MAX_WORKERS", "CACHE_DURATION", "REQUEST_TIMEOUT", "MAX_CACHE_SIZE"}

\* int(os.getenv(name, default)): [raised, v], raised for the ValueError of
\* int('abc').
getenv_int(environ, name, default) ==
    CASE environ[name] = "<unset>" -> [raised |-> FALSE, v |-> default]
      [] environ[name] = "abc" -> [raised |-> TRUE, v |-> 0]
      [] environ[name] = "-1" -> [raised |-> FALSE, v |-> 0 - 1]
      [] environ[name] = "0" -> [raised |-> FALSE, v |-> 0]
      [] environ[name] = "2" -> [raised |-> FALSE, v |-> 2]

\* The four fields of Config as read from the environment.
Config(environ) ==
    [MAX_WORKERS |-> getenv_int(environ, "MAX_WORKERS", 8),
     CACHE_DURATION |-> getenv_int(environ, "CACHE_DURATION", 60),
     REQUEST_TIMEOUT |-> getenv_int(environ, "REQUEST_TIMEOUT", 10),
     MAX_CACHE_SIZE |-> getenv_int(environ, "MAX_CACHE_SIZE", 1000)]

\* sm: the process; config is <<>> until config = Config() has run, report
\* <<>> until a request to /smart-money has been answered.
Process(environ) ==
    [status |-> "starting", environ |-> environ, config |-> <<>>, report |-> <<>>]

ConfigInit ==
    /\ now = 0
    /\ REQUEST_CACHE = <<>>
    /\ CACHE_HITS = 0
    /\ CACHE_MISSES = 0
    /\ cache_lock = Free
    /\ thr = NoThreads
    /\ obs = CacheObs0
    /\ sm \in {Process(environ) : environ \in [ConfigFields -> EnvTexts]}

\* The module is loaded: a ValueError in the class body ends the process,
\* otherwise config = Config() and the server runs.
config_load ==
    /\ sm.status = "starting"
    /\ LET c == Config(sm.environ)
       IN  sm' = IF \E f \in ConfigFields : c[f].raised
                 THEN [sm EXCEPT !.status = "failed"]
                 ELSE [sm EXCEPT !.status = "running",
                                 !.config = <<[f \in ConfigFields |-> c[f].v]>>]
    /\ UNCHANGED <<now, REQUEST_CACHE, CACHE_HITS, CACHE_MISSES, cache_lock, thr, obs>>

\* A request to /smart-money: get_smart_money returns the 'error' report
\* when ThreadPoolExecutor(max_workers=config.MAX_WORKERS) raises, and
\* otherwise the report of the call over the pool.
get_smart_money_request ==
    /\ sm.status = "running"
    /\ sm' = [sm EXCEPT !.status = "responded",
                        !.report =
                            IF sm.config[1]["MAX_WORKERS"] <= 0
                            THEN <<[status |-> "error", message |-> "max_workers"]>>
                            ELSE <<[status |-> "success", message |-> ""]>>]
    /\ UNCHANGED <<now, REQUEST_CACHE, CACHE_HITS, CACHE_MISSES, cache_lock, thr, obs>>

ConfigNext ==
    \/ config_load
    \/ get_smart_money_request

ConfigSpec == ConfigInit /\ [][ConfigNext]_vars

\* C30: a configuration with a MAX_WORKERS of zero or less is never created
\* (the process fails at startup instead), and no request to /smart-money is
\* answered with an error that the configuration caused.
C30_InvalidConfigFailsAtStartup ==
    /\ sm.config # <<>> => sm.config[1]["MAX_WORKERS"] > 0
    /\ sm.report # <<>> => sm.report[1].message # "max_workers"

\* =========================================================================
\* ApiSpec: one BrsApiClient._make_request(endpoint, params, retry_count)
\* call (src/src/data/api_client.py).  Its session has no retry adapter, so
\* a session.get is one HTTP request.
\* =========================================================================
MaxRetryCount == 3

\* settings.api_retry_count
api_retry_count == 3

\* retry_count as passed: <<>> for None (the default), or <<n>>.
RetryCountArgs == {<<>>} \cup {<<n>> : n \in 0..MaxRetryCount}

\* What a session.get comes back with: a 200 with a JSON body, a 200 whose
\* body is no JSON, a 429, another status, a Timeout, a ConnectionError, or
\* another exception.
ApiOutcomes == {"json", "text", "s429", "s500", "timeout", "connection", "other"}

\* sm: the call; requests counts the HTTP requests sent, slept is the last
\* time.sleep in seconds, ret the returned value ("None" before the return).
ApiCall(arg) ==
    [status |-> "called", arg |-> arg, retry_count |-> 0, attempt |-> 0,
     requests |-> 0, slept |-> 0, got_200 |-> FALSE, ret |-> "None"]

ApiInit ==
    /\ now = 0
    /\ REQUEST_CACHE = <<>>
    /\ CACHE_HITS = 0
    /\ CACHE_MISSES = 0
    /\ cache_lock = Free
    /\ thr = NoThreads
    /\ obs = CacheObs0
    /\ sm \in {ApiCall(arg) : arg \in RetryCountArgs}

\* retry_count = retry_count or settings.api_retry_count: None and 0 are
\* both falsy.
effective_retry_count(arg) ==
    IF arg = <<>> \/ arg[1] = 0 THEN api_retry_count ELSE arg[1]

\* 2 ** attempt
RECURSIVE Pow2(_)
Pow2(n) == IF n = 0 THEN 1 ELSE 2 * Pow2(n - 1)

make_request_call ==
    /\ sm.status = "called"
    /\ sm' = [sm EXCEPT !.status = "looping",
                        !.retry_count = effective_retry_count(sm.arg)]
    /\ UNCHANGED <<now, REQUEST_CACHE, CACHE_HITS, CACHE_MISSES, cache_lock, thr, obs>>

\* One iteration of `for attempt in range(retry_count)`.
make_request_attempt(outcome) ==
    /\ sm.status = "looping"
    /\ sm.attempt < sm.retry_count
    /\ sm' = CASE outcome = "json" ->
                    [sm EXCEPT !.status = "returned", !.requests = @ + 1,
                               !.got_200 = TRUE, !.ret = "json"]
               [] outcome = "text" ->
                    [sm EXCEPT !.status = "returned", !.requests = @ + 1,
                               !.got_200 = TRUE, !.ret = "raw_data"]
               [] outcome = "s429" ->
                    [sm EXCEPT !.requests = @ + 1, !.attempt = @ + 1, !.slept = 60]
               [] outcome \in {"timeout", "connection"} ->
                    [sm EXCEPT !.requests = @ + 1, !.attempt = @ + 1,
                               !.slept = Pow2(sm.attempt)]
               [] OTHER ->
                    [sm EXCEPT !.requests = @ + 1, !.attempt = @ + 1, !.slept = 0]
    /\ UNCHANGED <<now, REQUEST_CACHE, CACHE_HITS, CACHE_MISSES, cache_lock, thr, obs>>

\* The loop is exhausted: return None.
make_request_return_none ==
    /\ sm.status = "looping"
    /\ sm.attempt >= sm.retry_count
    /\ sm' = [sm EXCEPT !.status = "returned", !.ret = "None"]
    /\ UNCHANGED <<now, REQUEST_CACHE, CACHE_HITS, CACHE_MISSES, cache_lock, thr, obs>>

ApiNext ==
    \/ make_request_call
    \/ \E outcome \in ApiOutcomes : make_request_attempt(outcome)
    \/ make_request_return_none

ApiSpec == ApiInit /\ [][ApiNext]_vars

\* C36: a _make_request call given retry_count = n, n >= 0, sends at most n
\* HTTP requests; it returns the body of the first 200 response, and None
\* when no attempt got a 200.
C36_AtMostRetryCountRequests ==
    sm.arg # <<>> =>
        /\ sm.requests <= sm.arg[1]
        /\ sm.status = "returned" => (sm.ret = "None" <=> ~sm.got_200)

\* =========================================================================
\* DetectSpec: the scan of ScanSpec with check_smart_money_condition run on
\* what the two upstream fetches of a symbol returned
\* (SmartMoneyDetector, src/modules/smart_money.py).
\* =========================================================================

\* get_symbol_data: <<>> for None, or <<the dict>>; values on both sides of
\* each condition (tvol against 1.25 * is5 = 5, pl against pc, plp against 0).
SymbolDataSet ==
    {<<>>} \cup {<<[tvol |-> tvol, is5 |-> 4, pl |-> pl, pc |-> 1, plp |-> plp]>> :
                    tvol \in {5, 6}, pl \in {0, 1}, plp \in {0, 1}}

\* The count fields of the upstream line as texts.
CountTexts == {"", "0", "1"}

\* float(latest[3]) if latest[3] else 1: an empty field counts as 1, a "0"
\* is 0.0.
count_or_one(text) ==
    CASE text = "" -> 1
      [] text = "0" -> 0
      [] text = "1" -> 1

\* get_legal_data: <<>> for None, or <<the dict>>.
LegalDataSet ==
    {<<>>} \cup {<<[buy_i_volume |-> buy, buy_count_i |-> count_or_one(bc),
                     sell_i_volume |-> 2, sell_count_i |-> count_or_one(sc)]>> :
                    buy \in {0, 2}, bc \in CountTexts, sc \in CountTexts}

\* What check_smart_money_condition returns, and whether an exception left it.
CheckResult(has_smart_money, reason, escaped) ==
    [has_smart_money |-> has_smart_money, reason |-> reason, escaped |-> escaped]

\* `except Exception as e:` around the body, as a clause that lets the
\* ZeroDivisionError through.
CheckFailedMutUncaught == CheckResult(FALSE, "error", TRUE)

\* except Exception as e: return {..., 'has_smart_money': False, 'reason': ...}
CheckFailed == CheckResult(FALSE, "error", FALSE)

\* check_smart_money_condition on the results of the two fetches.
check_smart_money_condition(symbol_data, legal_data) ==
    IF symbol_data = <<>> \/ legal_data = <<>>
    THEN CheckResult(FALSE, "no_data", FALSE)
    ELSE LET s == symbol_data[1]
             l == legal_data[1]
             avg_buy == Quotient(l.buy_i_volume, l.buy_count_i)
             avg_sell == Quotient(l.sell_i_volume, l.sell_count_i)
             \* tvol > 1.25 * is5
             condition1 == 4 * s.tvol > 5 * s.is5
             \* (buy_i_volume / buy_count_i) >= (sell_i_volume / sell_count_i)
             condition2 == avg_buy.n * avg_sell.d >= avg_sell.n * avg_buy.d
             condition3 == s.pl >= s.pc
             condition4 == s.plp > 0
         IN  IF ZeroDivision(avg_buy) \/ ZeroDivision(avg_sell)
             THEN CheckFailed
             ELSE CheckResult(condition1 /\ condition2 /\ condition3 /\ condition4,
                              "", FALSE)

\* obs: the arguments and the result of the last check_smart_money_condition.
DetectObs0 == [checked |-> <<>>]

DetectInit ==
    /\ now = 0
    /\ REQUEST_CACHE = <<>>
    /\ CACHE_HITS = 0
    /\ CACHE_MISSES = 0
    /\ cache_lock = Free
    /\ thr = NoThreads
    /\ obs = DetectObs0
    /\ sm = NoCall

\* One iteration of `for symbol in symbols`: the two fetches, the check, and
\* results.append(result) for a has_smart_money; an exception leaving the
\* check would end the scan in its `except Exception` with an 'error' dict.
check_smart_money_condition_call(symbol_data, legal_data) ==
    /\ sm.status = "scanning"
    /\ sm.next <= Len(sm.symbols)
    /\ LET result == check_smart_money_condition(symbol_data, legal_data)
       IN  /\ sm' = IF result.escaped
                     THEN [status |-> "scanned", file |-> sm.file,
                           symbols |-> sm.symbols, results |-> ScanError("scan")]
                     ELSE [sm EXCEPT !.next = @ + 1,
                                     !.results = IF result.has_smart_money
                                                 THEN Append(@, sm.symbols[sm.next])
                                                 ELSE @]
           /\ obs' = [checked |-> <<[symbol_data |-> symbol_data,
                                      legal_data |-> legal_data,
                                      result |-> result]>>]
    /\ UNCHANGED <<now, REQUEST_CACHE, CACHE_HITS, CACHE_MISSES, cache_lock, thr>>

DetectNext ==
    \/ \E file \in FileSet : scan_symbols_from_file_open(file)
    \/ \E symbol_data \in SymbolDataSet, legal_data \in LegalDataSet :
          check_smart_money_condition_call(symbol_data, legal_data)
    \/ scan_symbols_from_file_return
    \/ smart_money_endpoint_respond

DetectSpec == DetectInit /\ [][DetectNext]_vars

\* C37: no exception leaves check_smart_money_condition; it reports
\* has_smart_money only when both fetches gave data and tvol > 1.25 * is5,
\* the average buy is at least the average sell, pl >= pc and plp > 0; and a
\* finished scan reports success with smart_money_count the number of
\* symbols it lists, at most total_symbols -- also when a buy or sell count
\* from upstream is zero.
C37_CheckNeverRaises ==
    /\ obs.checked # <<>> =>
          LET c == obs.checked[1]
          IN  /\ ~c.result.escaped
              /\ c.result.has_smart_money =>
                    /\ c.symbol_data # <<>>
                    /\ c.legal_data # <<>>
                    /\ 100 * c.symbol_data[1].tvol > 125 * c.symbol_data[1].is5
                    /\ c.legal_data[1].buy_count_i # 0
                    /\ c.legal_data[1].sell_count_i # 0
                    /\ c.legal_data[1].buy_i_volume * c.legal_data[1].sell_count_i
                          >= c.legal_data[1].sell_i_volume * c.legal_data[1].buy_count_i
                    /\ c.symbol_data[1].pl >= c.symbol_data[1].pc
                    /\ c.symbol_data[1].plp > 0
    /\ (sm.status = "scanned" /\ sm.symbols # <<>>) =>
          /\ sm.results.status = "success"
          /\ sm.results.smart_money_count = Len(sm.results.symbols_with_smart_money)
          /\ sm.results.smart_money_count <= sm.results.total_symbols
          /\ sm.results.total_symbols = Len(sm.symbols)

\* A scan has finished with success after a check whose upstream buy count
\* was zero, and it lists a symbol.
C37_Witness ==
    /\ sm.status = "scanned"
    /\ sm.results.status = "success"
    /\ sm.results.smart_money_count >= 1
    /\ obs.checked # <<>>
    /\ obs.checked[1].legal_data # <<>>
    /\ obs.checked[1].legal_data[1].buy_count_i = 0
    /\ obs.checked[1].result.reason = "error"

====
